---- MODULE Spec2Model ----
(***************************************************************************)
(* Model of the mining round protocol of simple-blockchain: the            *)
(* coordinator (bitcoin/interface/daemon.py, bitcoin/interface/            *)
(* interface.py), its chain (bitcoin/data/blockchain.py) and the miner     *)
(* process (bitcoin/data/node.py).                                         *)
(*                                                                         *)
(* Connections are numbered in the order in which the coordinator accepts  *)
(* them.  A byte stream is a FIFO of messages (one send = one recv).       *)
(* Amounts are in thousandths of a coin, so that the reward 3.125 is the   *)
(* integer 3125.  A block hash is modelled injectively: the hash of a      *)
(* block is its parent's hash extended by the pair (miner, target).        *)
(***************************************************************************)
EXTENDS Integers, Sequences, FiniteSets, TLC

\* ------------------------------------------------------------------ bounds
NumMiners == 2      \* connections the coordinator ever accepts
MaxRounds == 2      \* times the user runs the mine command
MaxLost   == 1      \* miner processes that end while connected
MaxSent   == 3      \* messages written by peers that are not PoWNode processes
MaxBlocks == 3      \* blocks added to the chain by add_block
MaxSpends == 2      \* transfers in one block
MaxChains == 1      \* chain messages written by peers

\* ------------------------------------------------------- program constants
base_difficulty == 2
reward == 3125

Conns == 1..NumMiners

GENESIS_HASH == <<>>

VARIABLES
    \* coordinator (InterfaceDaemon.__init__)
    nodes,            \* list of connections
    idle,             \* Event
    voting_started,   \* Event
    voting_over,      \* Event
    solution_queue,   \* list of serialized blocks
    consensus,        \* list of votes
    blockchain,       \* Blockchain: [blocks, utxo_set]
    \* coordinator threads
    hpc,              \* handle_connection thread of each connection
    cpc,              \* position of the UI thread inside Interface.mine
    loc,              \* locals of Interface.mine
    rounds,           \* mine commands run so far
    polled,           \* connections the last verify request was written to
    verdicts,         \* verdicts broadcast so far, oldest first
    \* streams
    toNode,           \* coordinator -> miner
    toMaster,         \* miner -> coordinator
    \* miner processes (PoWNode)
    mstate,           \* "off", "on", "closed"
    mchain,           \* PoWNode.blockchain
    solution_found,   \* PoWNode.solution_found
    mining_signal,    \* PoWNode.mining_signal
    pool,             \* PoWNode.transactions
    threads,          \* mine_block threads of each miner
    lost,             \* miner processes ended so far
    \* callers of the coordinator and of its Blockchain object
    sent,             \* messages written by peers that are not PoWNode processes
    txpool,           \* the transactions list handed to add_block
    ret               \* the last call on the Blockchain object and its result

cvars == <<nodes, idle, voting_started, voting_over, solution_queue, consensus,
           blockchain, hpc, cpc, loc, rounds, polled, verdicts>>
mvars == <<mstate, mchain, solution_found, mining_signal, pool, threads, lost>>
evars == <<sent, txpool, ret>>
vars == <<cvars, toNode, toMaster, mvars, evars>>

\* ----------------------------------------------------------------- helpers
RECURSIVE SumSeq(_)
SumSeq(s) == IF s = <<>> THEN 0 ELSE s[1] + SumSeq(Tail(s))

SeqSet(s) == {s[i] : i \in 1..Len(s)}

RemoveAt(s, k) == [i \in 1..(Len(s) - 1) |-> IF i < k THEN s[i] ELSE s[i + 1]]

\* list.remove(x): drops the first occurrence
RemoveFirst(s, x) ==
    IF x \in SeqSet(s)
    THEN RemoveAt(s, CHOOSE k \in 1..Len(s) : s[k] = x /\ \A j \in 1..(k - 1) : s[j] # x)
    ELSE s

\* the logarithm of line 31 taken in base 2
RECURSIVE FloorLog2(_)
FloorLog2(n) == IF n < 2 THEN 0 ELSE 1 + FloorLog2(n \div 2)

RECURSIVE FloorLog4(_)
FloorLog4(n) == IF n < 4 THEN 0 ELSE 1 + FloorLog4(n \div 4)

\* ------------------------------------------------------ blocks (block.py)
\* crypto.hash_transaction: SHA256 of the JSON text, collision free, so the
\* digest of a transaction is modelled by its content.
hash_transaction(t) == t

\* The coinbase transaction mine_block appends to the pool.
CoinbaseTx(m, fee) ==
    [outputs |-> <<[amount |-> fee, keyhash |-> m]>>, coinbase |-> TRUE]

\* dict comprehension {hash_transaction(t): t for t in transactions}: one
\* entry per txid, at the position of its first occurrence.
RECURSIVE TxDict(_, _)
TxDict(txs, seen) ==
    IF txs = <<>> THEN <<>>
    ELSE LET id == hash_transaction(Head(txs)) IN
         IF id \in seen THEN TxDict(Tail(txs), seen)
         ELSE <<[txid |-> id, tx |-> Head(txs)]>> \o TxDict(Tail(txs), seen \cup {id})

\* hashlib.sha256(x).digest(): collision free, so a digest is modelled by
\* what was hashed.
sha256(x) == <<"sha256", x>>

\* .hexdigest(): the digest as text
hexdigest(d) == <<"hex", d>>

\* json.dumps(t).encode()
json_dumps(t) == <<t>>

\* the exception of an index past the end of a list
IndexError == <<"IndexError">>

\* block.py 134 with the list left as it is
Unbalanced(txs) == txs

\* block.py 134: trs + [trs[-1]] if len(trs) % 2 else trs
Balanced(txs) == IF Len(txs) % 2 = 1 THEN Append(txs, txs[Len(txs)]) ELSE txs

\* block.py 142-145: one pass of the loop over a list of even length; two
\* digests of 32 bytes each concatenated are the pair of them
RECURSIVE HashPairs(_)
HashPairs(hashlist) ==
    IF hashlist = <<>> THEN <<>>
    ELSE <<sha256(<<hashlist[1], hashlist[2]>>)>>
             \o HashPairs(SubSeq(hashlist, 3, Len(hashlist)))

\* block.py 141-145: the loop; hashlist[i + 1] is past the end when a level
\* has an odd number of digests
RECURSIVE HashLevels(_)
HashLevels(hashlist) ==
    IF Len(hashlist) <= 1 THEN [raised |-> FALSE, hashlist |-> hashlist]
    ELSE IF Len(hashlist) % 2 = 1 THEN [raised |-> TRUE, hashlist |-> hashlist]
    ELSE HashLevels(HashPairs(hashlist))

\* PoWBlock.merkle_root: the root of the hash tree over the ordered list,
\* or the exception it ends with.
merkle_root(txs) ==
    LET trs == Balanced(txs)
        top == HashLevels([k \in 1..Len(trs) |-> sha256(json_dumps(trs[k]))])
    IN  IF top.raised \/ top.hashlist = <<>> THEN IndexError
        ELSE hexdigest(sha256(top.hashlist[1]))

\* PoWBlock.__init__ without a header: a block built over a pool.  The
\* header fields version, time and nonce do not take part in any decision
\* of the protocol and are left out.
PoWBlock(txs, parent, target) ==
    [hash_parent |-> parent, hash_merkle |-> merkle_root(txs), target |-> target,
     transactions |-> TxDict(txs, {})]

\* PoWBlock.hash: double SHA256 of the header text.
BlockHash(b) == Append(b.hash_parent, <<b.hash_merkle, b.target>>)

\* PoWBlock.outpoints
outpoints(b) ==
    [id \in {b.transactions[i].txid : i \in 1..Len(b.transactions)} |->
        LET e == CHOOSE e \in SeqSet(b.transactions) : e.txid = id
        IN  0..(Len(e.tx.outputs) - 1)]

\* PoWBlock.dumps / PoWBlock.loads: the header fields and the ordered
\* transaction mapping go to JSON text and back.
dumps(b) ==
    <<b.hash_parent, b.hash_merkle, b.target, b.transactions>>
loads(d) ==
    [hash_parent |-> d[1], hash_merkle |-> d[2], target |-> d[3], transactions |-> d[4]]

\* The miner whose key the coinbase of a block pays.
Origin(d) == loads(d).transactions[1].tx.outputs[1].keyhash

\* ----------------------------------------------- chain (blockchain.py)
EmptyChain == [blocks |-> <<>>, utxo_set |-> <<>>]

last_hash(blocks) ==
    IF blocks # <<>> THEN BlockHash(blocks[Len(blocks)]) ELSE GENESIS_HASH

\* spent.setdefault(tx_id, []).append(v_out) over the inputs of a transaction
RECURSIVE AddSpent(_, _)
AddSpent(spent, inputs) ==
    IF inputs = <<>> THEN spent
    ELSE LET i == Head(inputs)
             s == IF i.tx_id \in DOMAIN spent
                  THEN [spent EXCEPT ![i.tx_id] = @ \cup {i.v_out}]
                  ELSE [k \in DOMAIN spent \cup {i.tx_id} |->
                          IF k = i.tx_id THEN {i.v_out} ELSE spent[k]]
         IN  AddSpent(s, Tail(inputs))

\* blockchain.py 116-122: for every spent txid with an entry, subtract the
\* spent outputs and pop the entry when the remaining list is non-empty.
RemoveSpent(utxo, spent) ==
    LET left(k) == utxo[k].v_outs \ spent[k]
        gone == {k \in DOMAIN utxo \cap DOMAIN spent : left(k) # {}}
    IN  [k \in DOMAIN utxo \ gone |->
            IF k \in DOMAIN spent THEN [utxo[k] EXCEPT !.v_outs = left(k)] ELSE utxo[k]]

\* blockchain.py 102-122: the loop over the transactions of the new block
RECURSIVE SpendLoop(_, _, _)
SpendLoop(utxo, spent, txs) ==
    IF txs = <<>> THEN utxo
    ELSE LET t == Head(txs).tx IN
         IF t.coinbase THEN SpendLoop(utxo, spent, Tail(txs))
         ELSE LET s == AddSpent(spent, t.inputs)
              IN  SpendLoop(RemoveSpent(utxo, s), s, Tail(txs))

\* add_block without lines 124-128: the outputs of the new block never reach
\* the UTXO set.
add_block_no_outputs(bc, b) ==
    [blocks |-> Append(bc.blocks, b),
     utxo_set |-> SpendLoop(bc.utxo_set, <<>>, b.transactions)]

\* Blockchain.add_block
add_block(bc, b) ==
    LET blocks == Append(bc.blocks, b)
        utxo   == SpendLoop(bc.utxo_set, <<>>, b.transactions)
        outs   == outpoints(b)
    IN  [blocks |-> blocks,
         utxo_set |-> [k \in DOMAIN utxo \cup DOMAIN outs |->
                          IF k \in DOMAIN outs
                          THEN [v_outs |-> outs[k], block_id |-> Len(blocks) - 1]
                          ELSE utxo[k]]]

\* ----------------------------------------------------- keys (crypto.py)
\* A key pair is named by its owner: the private key k signs, the public key
\* k verifies.  Digests are collision free, so hash_pubkey is modelled by the
\* key it hashes, as the coinbase of CoinbaseTx does.
hash_pubkey(pub) == pub

\* dump_pubkey / load_pubkey: DER bytes as hex text and back
dump_pubkey(pub) == <<"hex", pub>>
load_pubkey(text) == text[2]

\* crypto.sign: hex text of a signature by priv over data
sign(priv, data) == <<"hex", [by |-> priv, data |-> data]>>
load_signature(text) == text[2]

\* crypto.verify: True when the signature was made by the private key of pub
\* over the same data, False otherwise
verify(pub, signature, data) == signature.by = pub /\ signature.data = data

\* str(amount), the text signed for an amount
str(amount) == <<"str", amount>>

\* --------------------------------- validation (blockchain.py 130-349)
\* block_id = i at line 345 when the block has a transaction with inputs:
\* the for loop of line 330 has rebound i to the last input, a dict, which
\* is not an index of self.blocks.
InputDict == -1

\* A Python bool and a Python int are told apart by `is False`.
FAIL(checks) == [kind |-> "False", val |-> 0, checks |-> checks]
Fee(n, checks) == [kind |-> "int", val |-> n, checks |-> checks]
Raises(checks) == [kind |-> "raise", val |-> 0, checks |-> checks]

HasTx(b, id) == \E k \in 1..Len(b.transactions) : b.transactions[k].txid = id
TxOf(b, id) == (CHOOSE e \in SeqSet(b.transactions) : e.txid = id).tx

\* sum(t.get("amount", 0) for t in outputs)
RECURSIVE OutAmount(_)
OutAmount(outs) ==
    IF outs = <<>> THEN 0
    ELSE (IF "amount" \in DOMAIN Head(outs) THEN Head(outs).amount ELSE 0)
         + OutAmount(Tail(outs))

\* [t["data"] for t in outputs if t.get("data")]: the empty string is falsy
OutData(outs) ==
    {outs[k].data : k \in {j \in 1..Len(outs) : /\ "data" \in DOMAIN outs[j]
                                                 /\ outs[j].data # <<>>}}

\* The loop over the inputs without the test of lines 166-168: an outpoint
\* named twice is looked up twice.
RECURSIVE InputLoopNoDup(_, _, _, _, _, _)
InputLoopNoDup(bc, ins, inpairs, total, data, checks) ==
    IF ins = <<>> THEN [kind |-> "done", total |-> total, data |-> data, checks |-> checks]
    ELSE LET i == Head(ins)
             pub == load_pubkey(i.key)
             sig == load_signature(i.signature)
         IN
         IF i.tx_id \notin DOMAIN bc.utxo_set
            \/ i.v_out \notin bc.utxo_set[i.tx_id].v_outs THEN FAIL(checks)
         ELSE LET id == bc.utxo_set[i.tx_id].block_id IN
              IF id = InputDict \/ id >= Len(bc.blocks) THEN Raises(checks)
              ELSE IF ~HasTx(bc.blocks[id + 1], i.tx_id) THEN Raises(checks)
              ELSE LET tx == TxOf(bc.blocks[id + 1], i.tx_id).outputs[i.v_out + 1] IN
                   IF hash_pubkey(pub) # tx.keyhash THEN FAIL(checks)
                   ELSE IF "amount" \in DOMAIN tx /\ tx.amount # 0
                        THEN IF ~verify(pub, sig, str(tx.amount)) THEN FAIL(checks + 1)
                             ELSE InputLoopNoDup(bc, Tail(ins), inpairs, total + tx.amount,
                                                 data, checks + 1)
                        ELSE IF "data" \notin DOMAIN tx THEN Raises(checks)
                        ELSE IF ~verify(pub, sig, tx.data) THEN FAIL(checks + 1)
                             ELSE InputLoopNoDup(bc, Tail(ins), inpairs, total,
                                                 data \cup {tx.data}, checks + 1)

\* blockchain.py 157-195: the loop over the inputs.  checks counts the calls
\* of crypto.verify made so far.
RECURSIVE InputLoop(_, _, _, _, _, _)
InputLoop(bc, ins, inpairs, total, data, checks) ==
    IF ins = <<>> THEN [kind |-> "done", total |-> total, data |-> data, checks |-> checks]
    ELSE LET i == Head(ins)
             pub == load_pubkey(i.key)
             sig == load_signature(i.signature)
             outpoint == <<i.tx_id, i.v_out>>
         IN
         IF outpoint \in inpairs THEN FAIL(checks)
         ELSE IF i.tx_id \notin DOMAIN bc.utxo_set
                 \/ i.v_out \notin bc.utxo_set[i.tx_id].v_outs THEN FAIL(checks)
         ELSE LET id == bc.utxo_set[i.tx_id].block_id IN
              IF id = InputDict \/ id >= Len(bc.blocks) THEN Raises(checks)
              ELSE IF ~HasTx(bc.blocks[id + 1], i.tx_id) THEN Raises(checks)
              ELSE LET tx == TxOf(bc.blocks[id + 1], i.tx_id).outputs[i.v_out + 1] IN
                   IF hash_pubkey(pub) # tx.keyhash THEN FAIL(checks)
                   ELSE IF "amount" \in DOMAIN tx /\ tx.amount # 0
                        THEN IF ~verify(pub, sig, str(tx.amount)) THEN FAIL(checks + 1)
                             ELSE InputLoop(bc, Tail(ins), inpairs \cup {outpoint},
                                            total + tx.amount, data, checks + 1)
                        ELSE IF "data" \notin DOMAIN tx THEN Raises(checks)
                        ELSE IF ~verify(pub, sig, tx.data) THEN FAIL(checks + 1)
                             ELSE InputLoop(bc, Tail(ins), inpairs \cup {outpoint},
                                            total, data \cup {tx.data}, checks + 1)

\* transaction.get("outputs", [{"amount": 0}])
OutputsOrDefault(t) ==
    IF "outputs" \in DOMAIN t THEN t.outputs ELSE <<[amount |-> 0]>>

\* Blockchain.validate_transaction.  transaction.get("inputs") is None for a
\* transaction without inputs, and the for loop of line 157 raises TypeError.
validate_transaction(bc, t) ==
    IF t.version # 1 THEN FAIL(0)
    ELSE IF "inputs" \notin DOMAIN t THEN Raises(0)
    ELSE LET r == InputLoop(bc, t.inputs, {}, 0, {}, 0) IN
         IF r.kind # "done" THEN r
         ELSE LET total == r.total - OutAmount(OutputsOrDefault(t)) IN
              IF total < 0 THEN FAIL(r.checks)
              ELSE IF r.data \ OutData(OutputsOrDefault(t)) # {} THEN FAIL(r.checks)
              ELSE Fee(total, r.checks)

\* block.target_value < int(block.hash, 16): the nonce is not part of the
\* model; the nonce search has succeeded for every block but one whose
\* target value is 0, which no hash meets.
meets_target(b) == b.target > 0

\* blockchain.py 261-287: the loop over the transactions of the block
RECURSIVE BlockLoop(_, _, _, _)
BlockLoop(bc, entries, fee, total) ==
    IF entries = <<>> THEN (IF fee # total + reward THEN "False" ELSE "True")
    ELSE LET e == Head(entries)
             t == e.tx
         IN
         IF hash_transaction(t) # e.txid THEN "False"
         ELSE IF t.coinbase /\ fee # 0 THEN "False"
         ELSE IF t.coinbase /\ "outputs" \notin DOMAIN t THEN "raise"
         ELSE IF t.coinbase /\ Len(t.outputs) # 1 THEN "False"
         ELSE IF t.coinbase /\ "amount" \notin DOMAIN t.outputs[1] THEN "raise"
         ELSE IF t.coinbase THEN BlockLoop(bc, Tail(entries), t.outputs[1].amount, total)
         ELSE LET r == validate_transaction(bc, t) IN
              IF r.kind = "False" THEN "False"
              ELSE IF r.kind = "raise" THEN "raise"
              ELSE BlockLoop(bc, Tail(entries), fee, total + r.val)

\* Blockchain.validate_block: "True", "False", or "raise" when a lookup of
\* validate_transaction raises
validate_block(bc, block, diff, parent) ==
    IF block.hash_parent # parent THEN "False"
    ELSE IF block.target # diff THEN "False"
    ELSE IF ~meets_target(block) THEN "False"
    ELSE BlockLoop(bc, block.transactions, 0, 0)

\* blockchain.py 328-331: the inputs of every transaction of the block
RECURSIVE InputsOf(_)
InputsOf(entries) ==
    IF entries = <<>> THEN <<>>
    ELSE (IF "inputs" \in DOMAIN Head(entries).tx THEN Head(entries).tx.inputs ELSE <<>>)
         \o InputsOf(Tail(entries))

\* The outpoints of b written with setdefault: an entry that exists is kept.
PutOutpointsKeep(utxo, b, id) ==
    LET outs == outpoints(b) IN
    [k \in DOMAIN utxo \cup DOMAIN outs |->
        IF k \in DOMAIN utxo THEN utxo[k] ELSE [v_outs |-> outs[k], block_id |-> id]]

\* self.utxo_set[txid] = UTXO(v_outs=vouts, block_id=id) for the outpoints of b
PutOutpoints(utxo, b, id) ==
    LET outs == outpoints(b) IN
    [k \in DOMAIN utxo \cup DOMAIN outs |->
        IF k \in DOMAIN outs THEN [v_outs |-> outs[k], block_id |-> id] ELSE utxo[k]]

\* blockchain.py 320-345: the loop over self.blocks[1:], i counted from 0
RECURSIVE ChainLoop(_, _)
ChainLoop(bc, i) ==
    IF i >= Len(bc.blocks) THEN [res |-> "True", chain |-> bc]
    ELSE LET block == bc.blocks[i + 1]
             ok == validate_block(bc, block, block.target, BlockHash(bc.blocks[i]))
         IN
         IF ok # "True" THEN [res |-> ok, chain |-> bc]
         ELSE LET ins == InputsOf(block.transactions)
                  utxo == RemoveSpent(bc.utxo_set, AddSpent(<<>>, ins))
                  id == IF ins = <<>> THEN i ELSE InputDict
              IN  ChainLoop([bc EXCEPT !.utxo_set = PutOutpoints(utxo, block, id)], i + 1)

\* Blockchain.validate_chain, on the object itself: the result and the
\* object it leaves.  The result of the genesis validate_block is not looked
\* at, and utxo_set is not emptied first.
validate_chain(bc) ==
    IF bc.blocks = <<>> THEN [res |-> "True", chain |-> bc]
    ELSE LET g == validate_block(bc, bc.blocks[1], bc.blocks[1].target, GENESIS_HASH) IN
         IF g = "raise" THEN [res |-> "raise", chain |-> bc]
         ELSE ChainLoop([bc EXCEPT !.utxo_set = PutOutpoints(bc.utxo_set, bc.blocks[1], 0)], 1)

\* ------------------------------ add_block with the caller's pool (85-128)
\* hashes = {hash_transaction(t): i for i, t in enumerate(transactions)}: the
\* position, counted from 0, of the last transaction with each txid
Hashes(txs) ==
    [id \in {hash_transaction(txs[k]) : k \in 1..Len(txs)} |->
        (CHOOSE k \in 1..Len(txs) :
            /\ hash_transaction(txs[k]) = id
            /\ \A j \in (k + 1)..Len(txs) : hash_transaction(txs[j]) # id) - 1]

\* blockchain.py 102-122 with the pool: transactions.pop(hashes[txid]) uses
\* the positions computed before any pop, and raises IndexError when the
\* position is past the end of the list.
RECURSIVE PoolLoop(_, _, _, _, _)
PoolLoop(utxo, spent, txs, hashes, entries) ==
    IF entries = <<>> THEN [utxo |-> utxo, pool |-> txs, raised |-> FALSE]
    ELSE LET e == Head(entries) IN
         IF e.tx.coinbase THEN PoolLoop(utxo, spent, txs, hashes, Tail(entries))
         ELSE LET s == AddSpent(spent, e.tx.inputs) IN
              IF e.txid \in DOMAIN hashes /\ hashes[e.txid] >= Len(txs)
              THEN [utxo |-> utxo, pool |-> txs, raised |-> TRUE]
              ELSE PoolLoop(RemoveSpent(utxo, s), s,
                            IF e.txid \in DOMAIN hashes
                            THEN RemoveAt(txs, hashes[e.txid] + 1) ELSE txs,
                            hashes, Tail(entries))

\* Blockchain.add_block(block, transactions): the object it leaves, the list
\* it returns, and whether it raised instead of returning
add_block_pool(bc, b, txs) ==
    LET blocks == Append(bc.blocks, b)
        r == PoolLoop(bc.utxo_set, <<>>, txs, Hashes(txs), b.transactions)
    IN  [chain |-> [blocks |-> blocks,
                    utxo_set |-> IF r.raised THEN r.utxo
                                 ELSE PutOutpoints(r.utxo, b, Len(blocks) - 1)],
         pool |-> r.pool,
         raised |-> r.raised]

\* ------------------------------------------- coordinator (daemon.py)
\* voting_finished without its first operand: only the sum closes a vote.
voting_finished_sum(votes, conns) ==
    100 * SumSeq(votes) >= 51 * Len(conns)

\* InterfaceDaemon.voting_finished
voting_finished(votes, conns) ==
    Len(votes) = Len(conns) \/ 100 * SumSeq(votes) >= 51 * Len(conns)

\* Interface.difficulty: the exponent byte of the compact target; the
\* mantissa is always ffffff.
difficulty(conns) == 32 - (base_difficulty + FloorLog4(Len(conns) + 1))

\* messages
Mine(d)        == [type |-> "mine", difficulty |-> d]
Verify(b, d)   == [type |-> "verify", block |-> b, difficulty |-> d]
VeredictB(b)   == [type |-> "veredict", block |-> b]
VeredictF(f)   == [type |-> "veredict", final |-> f]
ChainMsg(bs)   == [type |-> "chain", blockchain |-> bs]
Solution(b)    == [type |-> "solution", block |-> b]
Vote(v)        == [type |-> "verify", vote |-> v]
EOF            == [type |-> "eof"]

serialize(bc) == [i \in 1..Len(bc.blocks) |-> dumps(bc.blocks[i])]

\* The for loop of send_to_all over self.nodes, with self.nodes.remove(node)
\* inside it for the connections whose sendall raises (fail): after a
\* removal the list iterator skips the element that follows.
RECURSIVE SendLoop(_, _, _, _)
SendLoop(list, i, fail, got) ==
    IF i > Len(list) THEN [nodes |-> list, got |-> got]
    ELSE IF list[i] \in fail
         THEN SendLoop(RemoveFirst(list, list[i]), i + 1, fail, got)
         ELSE SendLoop(list, i + 1, fail, got \cup {list[i]})

\* The streams after a broadcast that reached the connections in got: what is
\* written to a process that has ended is lost.
Deliver(got, msg) ==
    [m \in Conns |-> IF m \in got /\ mstate[m] = "on"
                     THEN Append(toNode[m], msg) ELSE toNode[m]]

\* A sendall may raise only on a connection whose peer has gone.
Gone == {m \in Conns : mstate[m] = "closed"}

\* ------------------------------------------------------------------- Init
NoSolution == <<>>
NoCall == [op |-> "none"]
NoLocals == [diff |-> 0, iter |-> <<>>, alias |-> FALSE, i |-> 0,
             solution |-> NoSolution, acc |-> 0, verdict |-> "none"]

Init ==
    /\ nodes = <<>>
    /\ idle = TRUE                    \* Interface.run sets it before the prompt
    /\ voting_started = FALSE
    /\ voting_over = FALSE
    /\ solution_queue = <<>>
    /\ consensus = <<>>
    /\ blockchain = EmptyChain
    /\ hpc = [m \in Conns |-> "none"]
    /\ cpc = "ui"
    /\ loc = NoLocals
    /\ rounds = 0
    /\ polled = {}
    /\ verdicts = <<>>
    /\ toNode = [m \in Conns |-> <<>>]
    /\ toMaster = [m \in Conns |-> <<>>]
    /\ mstate = [m \in Conns |-> "off"]
    /\ mchain = [m \in Conns |-> <<>>]
    /\ solution_found = [m \in Conns |-> FALSE]
    /\ mining_signal = [m \in Conns |-> FALSE]
    /\ pool = [m \in Conns |-> <<>>]
    /\ threads = [m \in Conns |-> <<>>]
    /\ lost = 0
    /\ sent = 0
    /\ txpool = <<>>
    /\ ret = NoCall

\* ------------------------------------------- coordinator: accept thread
\* InterfaceDaemon.daemon: accept, register, start the connection thread.
Accept(m) ==
    /\ mstate[m] = "off"
    /\ \A k \in Conns : k < m => mstate[k] # "off"
    /\ mstate' = [mstate EXCEPT ![m] = "on"]
    /\ nodes' = Append(nodes, m)
    /\ hpc' = [hpc EXCEPT ![m] = "init"]
    /\ UNCHANGED <<idle, voting_started, voting_over, solution_queue, consensus,
                   blockchain, cpc, loc, rounds, polled, verdicts, toNode, toMaster, mchain,
                   solution_found, mining_signal, pool, threads, lost>>
    /\ UNCHANGED evars

\* ---------------------------------------- coordinator: connection threads
\* handle_connection, before its loop: seed the new node with the chain.  A
\* sendall that raises ends the thread through the except clause.
HandlerInit(m) ==
    /\ hpc[m] = "init"
    /\ \E raises \in IF mstate[m] = "closed" /\ Len(blockchain.blocks) > 0
                     THEN BOOLEAN ELSE {FALSE} :
          IF raises
          THEN /\ nodes' = RemoveFirst(nodes, m)
               /\ hpc' = [hpc EXCEPT ![m] = "done"]
               /\ toMaster' = [toMaster EXCEPT ![m] = <<>>]
               /\ UNCHANGED toNode
          ELSE /\ hpc' = [hpc EXCEPT ![m] = "run"]
               /\ toNode' = IF Len(blockchain.blocks) > 0 /\ mstate[m] = "on"
                            THEN [toNode EXCEPT ![m] = Append(@, ChainMsg(serialize(blockchain)))]
                            ELSE toNode
               /\ UNCHANGED <<nodes, toMaster>>
    /\ UNCHANGED <<idle, voting_started, voting_over, solution_queue, consensus,
                   blockchain, cpc, loc, rounds, polled, verdicts, mvars>>
    /\ UNCHANGED evars

Receives(m, type) ==
    /\ hpc[m] = "run"
    /\ toMaster[m] # <<>>
    /\ Head(toMaster[m]).type = type

\* case "solution" without the guard of line 94: every solution is queued.
HandleSolutionAlways(m) ==
    /\ Receives(m, "solution")
    /\ toMaster' = [toMaster EXCEPT ![m] = Tail(@)]
    /\ solution_queue' = Append(solution_queue, Head(toMaster[m]).block)
    /\ voting_started' = TRUE
    /\ UNCHANGED <<nodes, idle, voting_over, consensus, blockchain, hpc, cpc, loc,
                   rounds, polled, verdicts, toNode, mvars>>
    /\ UNCHANGED evars

\* case "solution"
HandleSolution(m) ==
    /\ Receives(m, "solution")
    /\ toMaster' = [toMaster EXCEPT ![m] = Tail(@)]
    /\ IF idle \/ voting_started
       THEN UNCHANGED <<solution_queue, voting_started>>
       ELSE /\ solution_queue' = Append(solution_queue, Head(toMaster[m]).block)
            /\ voting_started' = TRUE
    /\ UNCHANGED <<nodes, idle, voting_over, consensus, blockchain, hpc, cpc, loc,
                   rounds, polled, verdicts, toNode, mvars>>
    /\ UNCHANGED evars

\* case "verify" without the guard of lines 103-104: every vote is counted.
HandleVoteAlways(m) ==
    /\ Receives(m, "verify")
    /\ toMaster' = [toMaster EXCEPT ![m] = Tail(@)]
    /\ consensus' = Append(consensus, Head(toMaster[m]).vote)
    /\ voting_over' = IF voting_finished(consensus', nodes) THEN TRUE ELSE voting_over
    /\ UNCHANGED <<nodes, idle, voting_started, solution_queue, blockchain, hpc, cpc,
                   loc, rounds, polled, verdicts, toNode, mvars>>
    /\ UNCHANGED evars

\* case "verify"
HandleVote(m) ==
    /\ Receives(m, "verify")
    /\ toMaster' = [toMaster EXCEPT ![m] = Tail(@)]
    /\ IF ~voting_started
       THEN UNCHANGED <<consensus, voting_over>>
       ELSE /\ consensus' = Append(consensus, Head(toMaster[m]).vote)
            /\ voting_over' = IF voting_finished(consensus', nodes) THEN TRUE ELSE voting_over
    /\ UNCHANGED <<nodes, idle, voting_started, solution_queue, blockchain, hpc, cpc,
                   loc, rounds, polled, verdicts, toNode, mvars>>
    /\ UNCHANGED evars

\* recv on a stream whose peer has gone returns no bytes, json.loads raises,
\* and the thread deregisters the connection.
HandleEOF(m) ==
    /\ Receives(m, "eof")
    /\ toMaster' = [toMaster EXCEPT ![m] = <<>>]
    /\ nodes' = RemoveFirst(nodes, m)
    /\ hpc' = [hpc EXCEPT ![m] = "done"]
    /\ UNCHANGED <<idle, voting_started, voting_over, solution_queue, consensus,
                   blockchain, cpc, loc, rounds, polled, verdicts, toNode, mvars>>
    /\ UNCHANGED evars

\* --------------------------------------------- coordinator: Interface.mine
\* send_to_all: under the lock; any subset of the connections whose peer has
\* gone may raise (fail).
MayFail == SUBSET (Gone \cap SeqSet(nodes))
\* A broadcast that leaves out the miner whose solution is under vote.
RecipientsExceptOrigin(fail) ==
    SendLoop(nodes, 1, fail, {}).got \
        (IF loc.solution = <<>> THEN {} ELSE {Origin(loc.solution)})

Recipients(fail) == SendLoop(nodes, 1, fail, {}).got
Broadcast(msg, fail) ==
    /\ nodes' = SendLoop(nodes, 1, fail, {}).nodes
    /\ toNode' = Deliver(Recipients(fail), msg)

\* interface.py 48-50
MineBegin ==
    /\ cpc = "ui"
    /\ rounds < MaxRounds
    /\ rounds' = rounds + 1
    /\ loc' = [loc EXCEPT !.diff = difficulty(nodes)]
    /\ idle' = FALSE
    /\ cpc' = "send_mine"
    /\ UNCHANGED <<nodes, voting_started, voting_over, solution_queue, consensus,
                   blockchain, hpc, polled, verdicts, toNode, toMaster, mvars>>
    /\ UNCHANGED evars

\* interface.py 53
SendMine ==
    /\ cpc = "send_mine"
    /\ \E fail \in MayFail : Broadcast(Mine(loc.diff), fail)
    /\ cpc' = "wait_started"
    /\ UNCHANGED <<idle, voting_started, voting_over, solution_queue, consensus,
                   blockchain, hpc, loc, rounds, polled, verdicts, toMaster, mvars>>
    /\ UNCHANGED evars

\* The list object the for loop of mine iterates: self.solution_queue until
\* the attribute is rebound, the old object afterwards.
IterList == IF loc.alias THEN solution_queue ELSE loc.iter

\* interface.py 56-59: voting_started.wait() returns, the loop starts.
WaitStarted ==
    /\ cpc = "wait_started"
    /\ voting_started
    /\ IF solution_queue # <<>>
       THEN /\ loc' = [loc EXCEPT !.alias = TRUE, !.i = 0, !.solution = solution_queue[1]]
            /\ cpc' = "send_verify"
       ELSE /\ loc' = NoLocals
            /\ cpc' = "ui"
    /\ UNCHANGED <<nodes, idle, voting_started, voting_over, solution_queue, consensus,
                   blockchain, hpc, rounds, polled, verdicts, toNode, toMaster, mvars>>
    /\ UNCHANGED evars

\* interface.py 61-67
SendVerify ==
    /\ cpc = "send_verify"
    /\ \E fail \in MayFail :
          /\ Broadcast(Verify(loc.solution, loc.diff), fail)
          /\ polled' = Recipients(fail)
    /\ cpc' = "wait_over"
    /\ UNCHANGED <<idle, voting_started, voting_over, solution_queue, consensus,
                   blockchain, hpc, loc, rounds, verdicts, toMaster, mvars>>
    /\ UNCHANGED evars

\* interface.py 70-72: voting_over.wait() returns and the event is cleared.
\* A vote handled between the two leaves the state that the same vote handled
\* before the wait returned does, so they are one step.
WaitOver ==
    /\ cpc = "wait_over"
    /\ voting_over
    /\ voting_over' = FALSE
    /\ cpc' = "read_votes"
    /\ UNCHANGED <<nodes, idle, voting_started, solution_queue, consensus,
                   blockchain, hpc, loc, rounds, polled, verdicts, toNode, toMaster, mvars>>
    /\ UNCHANGED evars

\* interface.py 78, left operand: sum(self.consensus), read without the lock
ReadVotes ==
    /\ cpc = "read_votes"
    /\ loc' = [loc EXCEPT !.acc = SumSeq(consensus)]
    /\ cpc' = "decide"
    /\ UNCHANGED <<nodes, idle, voting_started, voting_over, solution_queue, consensus,
                   blockchain, hpc, rounds, polled, verdicts, toNode, toMaster, mvars>>
    /\ UNCHANGED evars

\* The comparison of line 78 with one half in the place of 0.51.
AcceptedHalf(acc, conns) == 100 * acc >= 50 * Len(conns)

\* interface.py 78 and 87: the branch taken
Accepted(acc, conns) == 100 * acc >= 51 * Len(conns)

Verdict(acc, conns, i, queue) ==
    IF Accepted(acc, conns) THEN "accept"
    ELSE IF i + 1 = Len(queue) THEN "final"
    ELSE "next"

Decide ==
    /\ cpc = "decide"
    /\ loc' = [loc EXCEPT !.verdict = Verdict(loc.acc, nodes, loc.i, solution_queue)]
    /\ cpc' = "send_verdict"
    /\ UNCHANGED <<nodes, idle, voting_started, voting_over, solution_queue, consensus,
                   blockchain, hpc, rounds, polled, verdicts, toNode, toMaster, mvars>>
    /\ UNCHANGED evars

\* interface.py 80, 89, 97
VerdictMsg(verdict, solution) ==
    IF verdict = "accept" THEN VeredictB(solution)
    ELSE VeredictF(verdict = "final")

SendVerdict ==
    /\ cpc = "send_verdict"
    /\ \E fail \in MayFail : Broadcast(VerdictMsg(loc.verdict, loc.solution), fail)
    /\ verdicts' = Append(verdicts, loc.verdict)
    /\ cpc' = "commit"
    /\ UNCHANGED <<idle, voting_started, voting_over, solution_queue, consensus,
                   blockchain, hpc, loc, rounds, polled, toMaster, mvars>>
    /\ UNCHANGED evars

\* interface.py 81-86, 90-94, 98-99, and the next turn of the for loop
Commit ==
    /\ cpc = "commit"
    /\ consensus' = <<>>
    /\ IF loc.verdict = "next"
       THEN UNCHANGED <<idle, voting_started, solution_queue, blockchain>>
       ELSE /\ idle' = TRUE
            /\ voting_started' = FALSE
            /\ solution_queue' = <<>>
            /\ blockchain' = IF loc.verdict = "accept"
                             THEN add_block(blockchain, loads(loc.solution))
                             ELSE blockchain
    /\ LET list == IterList
           i == loc.i + 1
       IN  IF i < Len(list)
           THEN /\ loc' = [loc EXCEPT !.iter = list,
                                      !.alias = (loc.alias /\ loc.verdict = "next"),
                                      !.i = i, !.solution = list[i + 1],
                                      !.acc = 0, !.verdict = "none"]
                /\ cpc' = "send_verify"
           ELSE /\ loc' = NoLocals
                /\ cpc' = "ui"
    /\ UNCHANGED <<nodes, voting_over, hpc, rounds, polled, verdicts, toNode, toMaster, mvars>>
    /\ UNCHANGED evars

\* ------------------------------------------------- miner (data/node.py)
\* PoWNode.last_hash
node_last_hash(m) == last_hash(mchain[m])

\* A pool element that is a plain dict (the coinbase mine_block appends) has
\* no fee attribute.
IsDict(e) == "coinbase" \in DOMAIN e

NoBlock == PoWBlock(<<>>, GENESIS_HASH, 0)

Thread(k, m) == threads[m][k]
SetThread(m, k, t) == [threads EXCEPT ![m][k] = t]
EndThread(m, k) == [threads EXCEPT ![m] = RemoveAt(@, k)]

Gets(m, type) ==
    /\ mstate[m] = "on"
    /\ toNode[m] # <<>>
    /\ Head(toNode[m]).type = type

\* run, case "mine": a new mine_block thread
RecvMine(m) ==
    /\ Gets(m, "mine")
    /\ toNode' = [toNode EXCEPT ![m] = Tail(@)]
    /\ mining_signal' = [mining_signal EXCEPT ![m] = FALSE]
    /\ solution_found' = [solution_found EXCEPT ![m] = FALSE]
    /\ threads' = [threads EXCEPT ![m] =
                      Append(@, [pc |-> "init", difficulty |-> Head(toNode[m]).difficulty,
                                 block |-> NoBlock])]
    /\ UNCHANGED <<cvars, toMaster, mstate, mchain, pool, lost>>
    /\ UNCHANGED evars

\* node.py 286-358: verify_block on a block whose transactions are coinbases
RECURSIVE VerifyTxs(_, _, _)
VerifyTxs(txs, fee, total) ==
    IF txs = <<>> THEN fee = total + reward
    ELSE LET e == Head(txs) IN
         IF hash_transaction(e.tx) # e.txid THEN FALSE
         ELSE IF e.tx.coinbase /\ fee # 0 THEN FALSE
         ELSE IF e.tx.coinbase
              THEN VerifyTxs(Tail(txs), e.tx.outputs[1].amount, total)
              ELSE FALSE

verify_block(m, msg) ==
    LET block == loads(msg.block) IN
    /\ block.hash_parent = node_last_hash(m)
    /\ block.target = msg.difficulty
    /\ VerifyTxs(block.transactions, 0, 0)

\* run, case "verify"
RecvVerify(m) ==
    /\ Gets(m, "verify")
    /\ toNode' = [toNode EXCEPT ![m] = Tail(@)]
    /\ solution_found' = [solution_found EXCEPT ![m] = TRUE]
    /\ toMaster' = [toMaster EXCEPT ![m] =
                       Append(@, Vote(IF verify_block(m, Head(toNode[m])) THEN 1 ELSE 0))]
    /\ UNCHANGED <<cvars, mstate, mchain, mining_signal, pool, threads, lost>>
    /\ UNCHANGED evars

\* node.py 211-233: _add_block pops the coinbase marker of the block it stores
node_add_block(chain, b) ==
    Append(chain, [b EXCEPT !.transactions =
                       [i \in 1..Len(b.transactions) |->
                           [b.transactions[i] EXCEPT !.tx.coinbase = FALSE]]])

\* run, case "veredict"
RecvVeredict(m) ==
    /\ Gets(m, "veredict")
    /\ toNode' = [toNode EXCEPT ![m] = Tail(@)]
    /\ LET msg == Head(toNode[m]) IN
       IF "block" \in DOMAIN msg
       THEN /\ mchain' = [mchain EXCEPT ![m] = node_add_block(@, loads(msg.block))]
            /\ solution_found' = [solution_found EXCEPT ![m] = FALSE]  \* _add_block, 233
            /\ mining_signal' = [mining_signal EXCEPT ![m] = TRUE]
       ELSE IF msg.final
       THEN /\ solution_found' = [solution_found EXCEPT ![m] = FALSE]
            /\ mining_signal' = [mining_signal EXCEPT ![m] = TRUE]
            /\ UNCHANGED mchain
       ELSE UNCHANGED <<mchain, mining_signal, solution_found>>
    /\ UNCHANGED <<cvars, toMaster, mstate, pool, threads, lost>>
    /\ UNCHANGED evars

\* run, case _: this node has no case for "chain"
RecvChain(m) ==
    /\ Gets(m, "chain")
    /\ toNode' = [toNode EXCEPT ![m] = Tail(@)]
    /\ UNCHANGED <<cvars, toMaster, mvars>>
    /\ UNCHANGED evars

\* mine_block 243-259: the coinbase and the block.  t.fee raises on a pool
\* element that is a dict, which ends the thread.
ThreadInit(m, k) ==
    /\ Thread(k, m).pc = "init"
    /\ IF \E i \in 1..Len(pool[m]) : IsDict(pool[m][i])
       THEN /\ threads' = EndThread(m, k)
            /\ UNCHANGED pool
       ELSE LET fee == SumSeq([i \in 1..Len(pool[m]) |-> pool[m][i].fee]) + reward
                txs == Append(pool[m], CoinbaseTx(m, fee))
            IN  /\ pool' = [pool EXCEPT ![m] = txs]
                /\ threads' = SetThread(m, k,
                      [Thread(k, m) EXCEPT !.pc = "top",
                          !.block = PoWBlock(txs, node_last_hash(m), Thread(k, m).difficulty)])
    /\ UNCHANGED <<cvars, toNode, toMaster, mstate, mchain, solution_found,
                   mining_signal, lost>>
    /\ UNCHANGED evars

\* mine_block 263, first turn of the loop
ThreadTop(m, k) ==
    /\ Thread(k, m).pc = "top"
    /\ threads' = SetThread(m, k, [Thread(k, m) EXCEPT
                      !.pc = IF solution_found[m] THEN "wait" ELSE "hash"])
    /\ UNCHANGED <<cvars, toNode, toMaster, mstate, mchain, solution_found,
                   mining_signal, pool, lost>>
    /\ UNCHANGED evars

\* mine_block 265-266: mining_signal.wait() returns and the event is cleared.
\* What the main thread does between the two leaves the state it leaves when
\* it runs before the wait returns, so they are one step.
ThreadWake(m, k) ==
    /\ Thread(k, m).pc = "wait"
    /\ mining_signal[m]
    /\ mining_signal' = [mining_signal EXCEPT ![m] = FALSE]
    /\ threads' = SetThread(m, k, [Thread(k, m) EXCEPT !.pc = "recheck"])
    /\ UNCHANGED <<cvars, toNode, toMaster, mstate, mchain, solution_found, pool, lost>>
    /\ UNCHANGED evars

pop_last(s) == SubSeq(s, 1, Len(s) - 1)

\* mine_block 267-270
ThreadRecheck(m, k) ==
    /\ Thread(k, m).pc = "recheck"
    /\ IF solution_found[m]
       THEN /\ pool' = [pool EXCEPT ![m] = pop_last(@)]
            /\ threads' = EndThread(m, k)
       ELSE /\ threads' = SetThread(m, k, [Thread(k, m) EXCEPT !.pc = "hash"])
            /\ UNCHANGED pool
    /\ UNCHANGED <<cvars, toNode, toMaster, mstate, mchain, solution_found,
                   mining_signal, lost>>
    /\ UNCHANGED evars

\* mine_block 273-282: a nonce whose hash meets the target
ThreadSolve(m, k) ==
    /\ Thread(k, m).pc = "hash"
    /\ toMaster' = [toMaster EXCEPT ![m] = Append(@, Solution(dumps(Thread(k, m).block)))]
    /\ pool' = [pool EXCEPT ![m] = pop_last(@)]
    /\ threads' = EndThread(m, k)
    /\ UNCHANGED <<cvars, toNode, mstate, mchain, solution_found, mining_signal, lost>>
    /\ UNCHANGED evars

\* mine_block 273, 284, 263: a nonce whose hash misses the target, and the
\* next turn of the loop finds solution_found set.  (A turn that finds it
\* clear comes back to the same place.)
ThreadMiss(m, k) ==
    /\ Thread(k, m).pc = "hash"
    /\ solution_found[m]
    /\ threads' = SetThread(m, k, [Thread(k, m) EXCEPT !.pc = "wait"])
    /\ UNCHANGED <<cvars, toNode, toMaster, mstate, mchain, solution_found,
                   mining_signal, pool, lost>>
    /\ UNCHANGED evars

\* The miner process ends (a signal, or an exception that leaves run): its
\* threads end with it and the coordinator's recv sees the stream closed.
MinerLost(m) ==
    /\ mstate[m] = "on"
    /\ lost < MaxLost
    /\ lost' = lost + 1
    /\ mstate' = [mstate EXCEPT ![m] = "closed"]
    /\ threads' = [threads EXCEPT ![m] = <<>>]
    /\ pool' = [pool EXCEPT ![m] = <<>>]
    /\ mchain' = [mchain EXCEPT ![m] = <<>>]
    /\ solution_found' = [solution_found EXCEPT ![m] = FALSE]
    /\ mining_signal' = [mining_signal EXCEPT ![m] = FALSE]
    /\ toNode' = [toNode EXCEPT ![m] = <<>>]
    /\ toMaster' = [toMaster EXCEPT ![m] = Append(@, EOF)]
    /\ UNCHANGED cvars
    /\ UNCHANGED evars

\* ------------------------------------------------------------------- Next
ThreadIds(m) == 1..Len(threads[m])

Next ==
    \/ \E m \in Conns : Accept(m)
    \/ \E m \in Conns : HandlerInit(m)
    \/ \E m \in Conns : HandleSolution(m)
    \/ \E m \in Conns : HandleVote(m)
    \/ \E m \in Conns : HandleEOF(m)
    \/ MineBegin
    \/ SendMine
    \/ WaitStarted
    \/ SendVerify
    \/ WaitOver
    \/ ReadVotes
    \/ Decide
    \/ SendVerdict
    \/ Commit
    \/ \E m \in Conns : RecvMine(m)
    \/ \E m \in Conns : RecvVerify(m)
    \/ \E m \in Conns : RecvVeredict(m)
    \/ \E m \in Conns : RecvChain(m)
    \/ \E m \in Conns : \E k \in ThreadIds(m) : ThreadInit(m, k)
    \/ \E m \in Conns : \E k \in ThreadIds(m) : ThreadTop(m, k)
    \/ \E m \in Conns : \E k \in ThreadIds(m) : ThreadWake(m, k)
    \/ \E m \in Conns : \E k \in ThreadIds(m) : ThreadRecheck(m, k)
    \/ \E m \in Conns : \E k \in ThreadIds(m) : ThreadSolve(m, k)
    \/ \E m \in Conns : \E k \in ThreadIds(m) : ThreadMiss(m, k)
    \/ \E m \in Conns : MinerLost(m)

Spec == Init /\ [][Next]_vars

\* ------------------------------------- the coordinator and arbitrary peers
\* handle_connection serves whatever a connected peer writes.  Here the peers
\* are not bound to the program of PoWNode.run: a peer may write a vote or a
\* solution at any time, as a vote of a third miner does that is still in
\* flight when the first two have closed the poll.
PeerBlock(m) ==
    dumps(PoWBlock(<<CoinbaseTx(m, reward)>>, last_hash(blockchain.blocks),
                   difficulty(nodes)))

PeerMessages(m) == {Vote(0), Vote(1), Solution(PeerBlock(m))}

\* daemon.py 87: conn.recv returns what the peer wrote
PeerSends(m, msg) ==
    /\ mstate[m] = "on"
    /\ sent < MaxSent
    /\ sent' = sent + 1
    /\ toMaster' = [toMaster EXCEPT ![m] = Append(@, msg)]
    /\ UNCHANGED <<cvars, toNode, mvars, txpool, ret>>

PeersNext ==
    \/ \E m \in Conns : Accept(m)
    \/ \E m \in Conns : HandlerInit(m)
    \/ \E m \in Conns : \E msg \in PeerMessages(m) : PeerSends(m, msg)
    \/ \E m \in Conns : HandleSolution(m)
    \/ \E m \in Conns : HandleVote(m)
    \/ MineBegin
    \/ SendMine
    \/ WaitStarted
    \/ SendVerify
    \/ WaitOver
    \/ ReadVotes
    \/ Decide
    \/ SendVerdict
    \/ Commit

SpecPeers == Init /\ [][PeersNext]_vars

\* ------------------------------- the Blockchain object and its callers
\* The chain of the coordinator under the calls that reach it: add_block
\* with a block and the caller's pool, validate_transaction, validate_chain
\* (the integrity command), and the chain handler of handle_connection.
Owners == {1, 2}
Other(k) == IF k = 1 THEN 2 ELSE 1

Unspent(bc) ==
    UNION {{<<id, v>> : v \in bc.utxo_set[id].v_outs} : id \in DOMAIN bc.utxo_set}

\* The output a wallet reads from the chain when it builds an input for it.
OutputOf(bc, id, v) ==
    LET k == CHOOSE k \in 1..Len(bc.blocks) : HasTx(bc.blocks[k], id)
    IN  TxOf(bc.blocks[k], id).outputs[v + 1]

\* tests.py 98-101, 113-158: the shape of a transaction.  A data string is a
\* tuple of words, the empty string the empty tuple.
SomeBytes == <<"some-bytes">>
SomeMoreBytes == <<"some", "more", "bytes">>
NoBytes == <<>>

Pay(a, k) == [amount |-> a, keyhash |-> hash_pubkey(k)]
Own(d, k) == [data |-> d, keyhash |-> hash_pubkey(k)]
Carries(o) == "amount" \in DOMAIN o
\* The text the owner of an output signs to spend it (tests.py 123, 145)
Payload(o) == IF Carries(o) THEN str(o.amount) ELSE o.data
TxInput(bc, id, v, pub, priv) ==
    [tx_id |-> id, v_out |-> v, key |-> dump_pubkey(pub),
     signature |-> sign(priv, Payload(OutputOf(bc, id, v)))]
Tx(ins, outs) == [version |-> 1, inputs |-> ins, outputs |-> outs, coinbase |-> FALSE]

\* The unspent outputs that carry an amount, and those that carry data.
Coins(bc) == {p \in Unspent(bc) : Carries(OutputOf(bc, p[1], p[2]))}
Papers(bc) == Unspent(bc) \ Coins(bc)

\* The owner's transactions over one unspent output: the whole amount to the
\* other owner; one coin to the other owner and the rest, less a fee of one,
\* back to the owner; the whole amount to the other owner after an output of
\* amount 0.
Transfers(bc) ==
    UNION {LET o == OutputOf(bc, p[1], p[2])
               in == <<TxInput(bc, p[1], p[2], o.keyhash, o.keyhash)>>
           IN  {Tx(in, <<Pay(o.amount, Other(o.keyhash))>>)} \cup
               (IF o.amount >= 3
                THEN {Tx(in, <<Pay(1, Other(o.keyhash)), Pay(o.amount - 2, o.keyhash)>>),
                      Tx(in, <<Pay(0, o.keyhash), Pay(o.amount, Other(o.keyhash))>>)}
                ELSE {})
           : p \in Coins(bc)}

\* The owner's transactions that write and move data (tests.py 138-158): a
\* coinbase spent into two data outputs, one of them the empty string, and
\* the whole amount; a data output handed to the other owner, alone or with
\* new data beside it.
DataTransfers(bc) ==
    UNION {LET o == OutputOf(bc, p[1], p[2])
               in == <<TxInput(bc, p[1], p[2], o.keyhash, o.keyhash)>>
           IN  IF Carries(o)
               THEN (IF o.amount >= reward
                     THEN {Tx(in, <<Own(SomeBytes, o.keyhash), Own(NoBytes, o.keyhash),
                                    Pay(o.amount, Other(o.keyhash))>>)}
                     ELSE {})
               ELSE {Tx(in, <<Own(o.data, Other(o.keyhash))>>),
                     Tx(in, <<Own(o.data, Other(o.keyhash)),
                              Own(SomeMoreBytes, o.keyhash)>>)}
           : p \in Unspent(bc)}

\* The number of outputs of the transaction id of the chain
Width(bc, id) ==
    LET k == CHOOSE k \in 1..Len(bc.blocks) : HasTx(bc.blocks[k], id)
    IN  Len(TxOf(bc.blocks[k], id).outputs)

\* The outpoints of the chain that are not unspent.
Outpoints(bc) ==
    UNION {UNION {{<<bc.blocks[k].transactions[j].txid, v - 1>>
                     : v \in 1..Len(bc.blocks[k].transactions[j].tx.outputs)}
                  : j \in 1..Len(bc.blocks[k].transactions)}
           : k \in 1..Len(bc.blocks)}
Spent(bc) == Outpoints(bc) \ Unspent(bc)

\* What an output holds, handed to the owner k
Moved(o, k) == IF Carries(o) THEN Pay(o.amount, k) ELSE Own(o.data, k)

\* The transactions handed to validate_transaction: the transfers, and the
\* ways tests.py 172-211 spoils one.
Spoiled(bc) ==
    UNION {LET o == OutputOf(bc, p[1], p[2])
               own == o.keyhash
               good == TxInput(bc, p[1], p[2], own, own)
               forged == TxInput(bc, p[1], p[2], own, Other(own))
               stolen == TxInput(bc, p[1], p[2], Other(own), Other(own))
               miswritten == [good EXCEPT !.signature =
                                 sign(own, IF Carries(o) THEN str(o.amount + 1)
                                           ELSE SomeMoreBytes)]
               potato == [good EXCEPT !.tx_id = hash_transaction(Tx(<<>>, <<>>))]
               invalid == [good EXCEPT !.v_out = Width(bc, p[1])]
               outs == <<Moved(o, Other(own))>>
           IN  {Tx(<<good, good>>, outs),
                Tx(<<forged, forged>>, outs),
                Tx(<<forged>>, outs),
                Tx(<<stolen>>, outs),
                Tx(<<miswritten>>, outs),
                Tx(<<potato>>, outs),
                Tx(<<invalid>>, outs),
                Tx(<<good, invalid>>, outs),
                [Tx(<<good>>, outs) EXCEPT !.version = 2],
                [version |-> 1, inputs |-> <<good>>, coinbase |-> FALSE],
                [version |-> 1, outputs |-> outs, coinbase |-> FALSE]} \cup
               (IF Carries(o)
                THEN {Tx(<<good>>, <<Pay(o.amount + 1, Other(own))>>)} \cup
                     {Tx(<<good, TxInput(bc, q[1], q[2], own, own)>>,
                         <<Pay(o.amount + OutputOf(bc, q[1], q[2]).amount - f, Other(own))>>)
                        : q \in {q \in Coins(bc) : q # p
                                    /\ OutputOf(bc, q[1], q[2]).keyhash = own},
                          f \in {0, 1}}
                ELSE {Tx(<<good>>, <<>>),
                      Tx(<<good>>, <<Own(SomeMoreBytes, Other(own))>>),
                      Tx(<<good>>, <<Pay(0, Other(own))>>)})
           : p \in Unspent(bc)}
    \cup {Tx(<<TxInput(bc, p[1], p[2], OutputOf(bc, p[1], p[2]).keyhash,
                       OutputOf(bc, p[1], p[2]).keyhash)>>,
              <<Moved(OutputOf(bc, p[1], p[2]), 2)>>) : p \in Spent(bc)}

\* node.py 368-372: the pool takes a transaction the validation accepts
Admitted(bc) == {t \in Transfers(bc) : validate_transaction(bc, t).kind = "int"}

\* The non-coinbase transactions of the blocks a miner builds: at most max
\* transfers over different outputs.
SpendLists(bc, max) ==
    {s \in UNION {[1..n -> Admitted(bc)] : n \in 0..max} :
        \A i, j \in DOMAIN s : i # j =>
            <<s[i].inputs[1].tx_id, s[i].inputs[1].v_out>> #
            <<s[j].inputs[1].tx_id, s[j].inputs[1].v_out>>}

RECURSIVE Fees(_, _)
Fees(bc, txs) ==
    IF txs = <<>> THEN 0
    ELSE validate_transaction(bc, Head(txs)).val + Fees(bc, Tail(txs))

\* mine_block 243-259 over a pool txs by the owner k; extra is added to the
\* amount of the coinbase (0 for the block an honest miner builds).
MinedBlock(bc, txs, k, extra) ==
    PoWBlock(Append(txs, CoinbaseTx(k, Fees(bc, txs) + reward + extra)),
             last_hash(bc.blocks), difficulty(nodes))

\* The blocks handed to add_block: the blocks an honest miner builds, and a
\* block that pays its miner one coin too many, which enters the chain when
\* the miners that vote do not validate (nodeLiaer.py 99).
BlockInputs(bc, max) ==
    {MinedBlock(bc, txs, 1, 0) : txs \in SpendLists(bc, max)}
    \cup {MinedBlock(bc, <<>>, 1, 1)}

\* The blocks an honest miner builds over one transaction that writes or
\* moves data.
DataBlocks(bc) ==
    {MinedBlock(bc, <<t>>, 1, 0) :
        t \in {t \in DataTransfers(bc) : validate_transaction(bc, t).kind = "int"}}

\* The ways a block handed to validate_block goes wrong: no coinbase, a second
\* coinbase after one of amount 0 and after one of the right amount, a
\* coinbase with two outputs, with a data output, without outputs, a
\* transaction that does not validate, a stored txid that is not the hash of
\* its transaction, a wrong parent, a wrong target, a hash above the target.
BadBlocks(bc) ==
    LET parent == last_hash(bc.blocks)
        diff == difficulty(nodes)
        right == CoinbaseTx(1, reward)
        good == PoWBlock(<<right>>, parent, diff)
    IN  {PoWBlock(<<t>>, parent, diff) : t \in Admitted(bc)}
        \cup {PoWBlock(Append(<<t>>, CoinbaseTx(1, reward)), parent, diff)
                 : t \in Spoiled(bc)}
        \cup {PoWBlock(<<CoinbaseTx(1, 0), right>>, parent, diff),
              PoWBlock(<<right, CoinbaseTx(2, reward)>>, parent, diff),
              PoWBlock(<<CoinbaseTx(1, 0), CoinbaseTx(2, 0), right>>, parent, diff),
              PoWBlock(<<[outputs |-> <<Pay(reward, 1), Pay(0, 1)>>, coinbase |-> TRUE]>>,
                       parent, diff),
              PoWBlock(<<[outputs |-> <<Own(SomeBytes, 1)>>, coinbase |-> TRUE]>>,
                       parent, diff),
              PoWBlock(<<[coinbase |-> TRUE]>>, parent, diff),
              PoWBlock(<<CoinbaseTx(1, reward + 1)>>, parent, diff),
              [good EXCEPT !.transactions[1].txid = hash_transaction(CoinbaseTx(2, reward))],
              [good EXCEPT !.hash_parent = BlockHash(good)],
              [good EXCEPT !.target = diff - 1],
              PoWBlock(<<right>>, parent, 0)}

\* A transaction that is in no block.
Idle == Tx(<<>>, <<Pay(1, 1)>>)

\* The pools handed to add_block with block b: the empty pool of
\* interface.py 85, the pool the block was built over, and that pool with a
\* transaction that arrived after the block was built.
PoolInputs(b) ==
    LET txs == [k \in 1..(Len(b.transactions) - 1) |-> b.transactions[k].tx]
    IN  {<<>>, txs, Append(txs, Idle)}

\* interface.py 85 and blockchain.py 85-128
AddBlockCall(b, txs) ==
    /\ cpc = "ui"
    /\ Len(blockchain.blocks) < MaxBlocks
    /\ LET r == add_block_pool(blockchain, b, txs) IN
       /\ blockchain' = r.chain
       /\ txpool' = r.pool
       /\ ret' = [op |-> "add_block", block |-> b, pool |-> txs, raised |-> r.raised,
                  valid |-> validate_block(blockchain, b, b.target,
                                           last_hash(blockchain.blocks)) = "True"]
    /\ UNCHANGED <<nodes, idle, voting_started, voting_over, solution_queue, consensus,
                   hpc, cpc, loc, rounds, polled, verdicts, toNode, toMaster, mvars, sent>>

\* blockchain.py 130-217, called on the chain as it is
ValidateTxCall(t) ==
    /\ cpc = "ui"
    /\ ret' = [op |-> "validate_transaction", tx |-> t,
               res |-> validate_transaction(blockchain, t)]
    /\ UNCHANGED <<cvars, toNode, toMaster, mvars, sent, txpool>>

\* blockchain.py 219-296, called by a node that votes on the block b
\* (node.py 414-416) with the announced difficulty and the hash of the last
\* block of its chain
ValidateBlockCall(b) ==
    /\ cpc = "ui"
    /\ ret' = [op |-> "validate_block", block |-> b,
               res |-> validate_block(blockchain, b, difficulty(nodes),
                                      last_hash(blockchain.blocks))]
    /\ UNCHANGED <<cvars, toNode, toMaster, mvars, sent, txpool>>

\* blockchain.py 298-349, called on the chain as it is
ValidateChainCall ==
    /\ cpc = "ui"
    /\ LET r == validate_chain(blockchain) IN
       /\ blockchain' = r.chain
       /\ ret' = [op |-> "validate_chain", res |-> r.res]
    /\ UNCHANGED <<nodes, idle, voting_started, voting_over, solution_queue, consensus,
                   hpc, cpc, loc, rounds, polled, verdicts, toNode, toMaster, mvars,
                   sent, txpool>>

\* The Blockchain object built from a chain message (daemon.py 113-118)
Received(msg) ==
    [blocks |-> [k \in 1..Len(msg.blockchain) |-> loads(msg.blockchain[k])],
     utxo_set |-> <<>>]

\* case "chain" that sends nothing when the received chain is not taken.
HandleChainQuiet(m) ==
    /\ Receives(m, "chain")
    /\ LET got == Received(Head(toMaster[m]))
           r == validate_chain(got)
       IN  /\ ret' = [op |-> "chain", got |-> got.blocks,
                      res |-> IF Len(got.blocks) > Len(blockchain.blocks)
                              THEN r.res ELSE "short"]
           /\ IF Len(got.blocks) > Len(blockchain.blocks) /\ r.res = "raise"
              THEN /\ nodes' = RemoveFirst(nodes, m)
                   /\ hpc' = [hpc EXCEPT ![m] = "done"]
                   /\ toMaster' = [toMaster EXCEPT ![m] = <<>>]
                   /\ UNCHANGED <<blockchain, toNode>>
              ELSE /\ toMaster' = [toMaster EXCEPT ![m] = Tail(@)]
                   /\ UNCHANGED hpc
                   /\ IF Len(got.blocks) > Len(blockchain.blocks) /\ r.res = "True"
                      THEN /\ blockchain' = r.chain
                           /\ \E fail \in MayFail :
                                 /\ nodes' = SendLoop(nodes, 1, fail, {}).nodes
                                 /\ toNode' = Deliver(Recipients(fail),
                                                      ChainMsg(serialize(r.chain)))
                      ELSE UNCHANGED <<blockchain, nodes, toNode>>
    /\ UNCHANGED <<idle, voting_started, voting_over, solution_queue, consensus,
                   cpc, loc, rounds, polled, verdicts, mvars, sent, txpool>>

\* case "chain" without the comparison of line 120: a chain that passes
\* validate_chain is taken whatever its length.
HandleChainAnyLength(m) ==
    /\ Receives(m, "chain")
    /\ LET got == Received(Head(toMaster[m]))
           r == validate_chain(got)
       IN  /\ ret' = [op |-> "chain", got |-> got.blocks,
                      res |-> IF Len(got.blocks) > Len(blockchain.blocks)
                              THEN r.res ELSE "short"]
           /\ IF r.res = "raise"
              THEN /\ nodes' = RemoveFirst(nodes, m)
                   /\ hpc' = [hpc EXCEPT ![m] = "done"]
                   /\ toMaster' = [toMaster EXCEPT ![m] = <<>>]
                   /\ UNCHANGED <<blockchain, toNode>>
              ELSE /\ blockchain' = IF r.res = "True" THEN r.chain ELSE blockchain
                   /\ toMaster' = [toMaster EXCEPT ![m] = Tail(@)]
                   /\ UNCHANGED hpc
                   /\ \E fail \in MayFail :
                         /\ nodes' = SendLoop(nodes, 1, fail, {}).nodes
                         /\ toNode' = Deliver(Recipients(fail),
                                              ChainMsg(serialize(blockchain')))
    /\ UNCHANGED <<idle, voting_started, voting_over, solution_queue, consensus,
                   cpc, loc, rounds, polled, verdicts, mvars, sent, txpool>>

\* case "chain" (daemon.py 112-132).  An exception of validate_chain ends the
\* thread through the except clause, which deregisters the connection.
HandleChain(m) ==
    /\ Receives(m, "chain")
    /\ LET got == Received(Head(toMaster[m]))
           r == validate_chain(got)
       IN  /\ ret' = [op |-> "chain", got |-> got.blocks,
                      res |-> IF Len(got.blocks) > Len(blockchain.blocks)
                              THEN r.res ELSE "short"]
           /\ IF Len(got.blocks) > Len(blockchain.blocks)
              THEN IF r.res = "raise"
                   THEN /\ nodes' = RemoveFirst(nodes, m)
                        /\ hpc' = [hpc EXCEPT ![m] = "done"]
                        /\ toMaster' = [toMaster EXCEPT ![m] = <<>>]
                        /\ UNCHANGED <<blockchain, toNode>>
                   ELSE /\ blockchain' = IF r.res = "True" THEN r.chain ELSE blockchain
                        /\ toMaster' = [toMaster EXCEPT ![m] = Tail(@)]
                        /\ UNCHANGED hpc
                        /\ \E fail \in MayFail :
                              /\ nodes' = SendLoop(nodes, 1, fail, {}).nodes
                              /\ toNode' = Deliver(Recipients(fail),
                                                   ChainMsg(serialize(blockchain')))
              ELSE /\ toMaster' = [toMaster EXCEPT ![m] = Tail(@)]
                   /\ UNCHANGED <<blockchain, nodes, hpc, toNode>>
    /\ UNCHANGED <<idle, voting_started, voting_over, solution_queue, consensus,
                   cpc, loc, rounds, polled, verdicts, mvars, sent, txpool>>

\* The chains a peer writes: the chain of the coordinator, that chain with
\* one more block, a chain of one block of its own, and chains whose first
\* block is not valid.
\* Chains of one block that is no valid first block: its parent is not
\* GENESIS_HASH, its hash is above its target, its coinbase pays too much.
BadGenesis ==
    LET good == MinedBlock(EmptyChain, <<>>, 2, 0)
    IN  {<<[good EXCEPT !.hash_parent = BlockHash(good)]>>,
         <<PoWBlock(<<CoinbaseTx(2, reward)>>, GENESIS_HASH, 0)>>,
         <<MinedBlock(EmptyChain, <<>>, 2, 1)>>}

ChainInputs ==
    {blockchain.blocks, <<MinedBlock(EmptyChain, <<>>, 2, 0)>>}
    \cup {Append(blockchain.blocks, b) : b \in BlockInputs(blockchain, 1)}
    \cup BadGenesis

ChainMessages == {ChainMsg(serialize([blocks |-> c, utxo_set |-> <<>>])) : c \in ChainInputs}

LedgerNext ==
    \/ \E b \in BlockInputs(blockchain, MaxSpends) :
          \E txs \in PoolInputs(b) : AddBlockCall(b, txs)
    \/ ValidateChainCall

SpecLedger == Init /\ [][LedgerNext]_vars

\* ----------------------------------------- validate_transaction alone
\* The two validations leave the chain as it is: one call of them after
\* each change of the chain reaches every result they have on it.  The blocks
\* handed to validate_block include those that hold two different
\* transactions of the owner over the same unspent output, each of which the
\* validation accepts on the chain, and a coinbase of the reward and their
\* fees.
TxNext ==
    \/ \E b \in BlockInputs(blockchain, 1) \cup DataBlocks(blockchain) :
          AddBlockCall(b, <<>>)
    \/ /\ ret.op \in {"none", "add_block"}
       /\ \E t \in Transfers(blockchain) \cup DataTransfers(blockchain)
                    \cup Spoiled(blockchain) : ValidateTxCall(t)
    \/ /\ ret.op \in {"none", "add_block"}
       /\ \E b \in BlockInputs(blockchain, 1) \cup DataBlocks(blockchain)
                    \cup BadBlocks(blockchain)
                    \cup {MinedBlock(blockchain, <<p[1], p[2]>>, 1, 0) :
                            p \in {p \in Admitted(blockchain) \X Admitted(blockchain) :
                                      p[1] # p[2] /\ p[1].inputs = p[2].inputs}} :
             ValidateBlockCall(b)

SpecTx == Init /\ [][TxNext]_vars

\* ------------------------------------------- the chain handler and peers
\* Two connections are registered and served, no block has been mined.
ChainInit ==
    /\ nodes = <<1, 2>>
    /\ idle = TRUE
    /\ voting_started = FALSE
    /\ voting_over = FALSE
    /\ solution_queue = <<>>
    /\ consensus = <<>>
    /\ blockchain = EmptyChain
    /\ hpc = [m \in Conns |-> IF m \in {1, 2} THEN "run" ELSE "none"]
    /\ cpc = "ui"
    /\ loc = NoLocals
    /\ rounds = 0
    /\ polled = {}
    /\ verdicts = <<>>
    /\ toNode = [m \in Conns |-> <<>>]
    /\ toMaster = [m \in Conns |-> <<>>]
    /\ mstate = [m \in Conns |-> IF m \in {1, 2} THEN "on" ELSE "off"]
    /\ mchain = [m \in Conns |-> <<>>]
    /\ solution_found = [m \in Conns |-> FALSE]
    /\ mining_signal = [m \in Conns |-> FALSE]
    /\ pool = [m \in Conns |-> <<>>]
    /\ threads = [m \in Conns |-> <<>>]
    /\ lost = 0
    /\ sent = 0
    /\ txpool = <<>>
    /\ ret = NoCall

ChainNext ==
    \/ \E b \in BlockInputs(blockchain, 1) : AddBlockCall(b, <<>>)
    \/ \E m \in Conns : \E msg \in ChainMessages : sent < MaxChains /\ PeerSends(m, msg)
    \/ \E m \in Conns : HandleChain(m)
    \/ \E m \in Conns : RecvChain(m)
    \/ ValidateChainCall

SpecChain == ChainInit /\ [][ChainNext]_vars

\* ============================================================== properties
\* A step of the UI thread from one position of Interface.mine to another.
Step(a, b) == cpc = a /\ cpc' = b

\* The connections that follow, in list, one whose peer has gone: a removal
\* inside the loop of send_to_all makes the iterator skip them.
AfterGone(list) ==
    {list[i + 1] : i \in {j \in 1..(Len(list) - 1) : list[j] \in Gone}}

\* The running miners a broadcast over list cannot miss.
Reached(list) ==
    {m \in SeqSet(list) : mstate[m] = "on" /\ m \notin AfterGone(list)}

\* The handle_connection thread of m takes a message of this type off its stream.
Takes(m, type) == Receives(m, type) /\ toMaster'[m] = Tail(toMaster[m])

LastVerdict == IF verdicts = <<>> THEN "none" ELSE verdicts[Len(verdicts)]

\* A vote can still reach the coordinator: a running miner holds a verify
\* request, or a stream to the coordinator holds a vote.
VoteComing ==
    \E m \in Conns :
        \/ mstate[m] = "on" /\ \E i \in 1..Len(toNode[m]) : toNode[m][i].type = "verify"
        \/ hpc[m] \in {"init", "run"} /\
              \E i \in 1..Len(toMaster[m]) : toMaster[m][i].type = "verify"

\* ---------------------------------------------------------------------- C1
CeilQuorum(n) == (51 * n + 99) \div 100

\* C1: once voting_over is observed, the candidate is accepted iff the sum of
\* the votes read from consensus is at least ceil(0.51 * |nodes|), |nodes|
\* being the connections registered when the branch is taken; on acceptance
\* the veredict carrying the block is broadcast, exactly that block is
\* appended to the coordinator's chain, solution_queue and consensus are
\* emptied and idle is set.
C1_VerdictRule ==
    [][ /\ Step("read_votes", "decide") => loc'.acc = SumSeq(consensus)
        /\ Step("decide", "send_verdict") =>
              ((loc'.verdict = "accept") <=> (loc.acc >= CeilQuorum(Len(nodes))))
        /\ (Step("send_verdict", "commit") /\ loc.verdict = "accept") =>
              \A m \in Reached(nodes) :
                  toNode'[m] = Append(toNode[m], VeredictB(loc.solution))
        /\ (cpc = "commit" /\ cpc' # "commit" /\ loc.verdict = "accept") =>
              /\ blockchain'.blocks = Append(blockchain.blocks, loads(loc.solution))
              /\ solution_queue' = <<>>
              /\ consensus' = <<>>
              /\ idle'
      ]_vars

\* Two miners voted, the block was accepted and committed.
C1_Witness ==
    /\ cpc = "ui"
    /\ LastVerdict = "accept"
    /\ Len(nodes) = 2
    /\ Len(blockchain.blocks) = 1
    /\ idle

\* ---------------------------------------------------------------------- C2
\* C2 as stated: the miner that submitted the candidate under vote is never
\* among the connections the verify request is written to.
C2_OriginatorNotPolled ==
    cpc \in {"wait_over", "read_votes", "decide", "send_verdict", "commit"} =>
        Origin(loc.solution) \notin polled

\* C2, amended: the verify request is written to every registered running
\* miner the loop of send_to_all does not skip, the originator included, and
\* every miner that takes a verify request, the originator included, answers
\* with a vote.
C2_OriginatorPolled ==
    [][ /\ Step("send_verify", "wait_over") =>
              /\ Reached(nodes) \subseteq polled'
              /\ \A m \in Reached(nodes) :
                    toNode'[m] = Append(toNode[m], Verify(loc.solution, loc.diff))
        /\ \A m \in Conns :
              (Gets(m, "verify") /\ toNode'[m] = Tail(toNode[m]) /\ mstate'[m] = "on") =>
                  \E v \in {0, 1} : toMaster'[m] = Append(toMaster[m], Vote(v))
      ]_vars

\* Every miner was polled, the originator among them, and as many votes as
\* miners are in consensus.
C2_Witness ==
    /\ cpc = "read_votes"
    /\ polled = Conns
    /\ Origin(loc.solution) \in polled
    /\ Len(consensus) = NumMiners

\* ---------------------------------------------------------------------- C3
\* The first block enters the empty chain: one block, and the UTXO set is
\* the single outpoint of its coinbase.
FirstBlockCommitted ==
    (cpc = "commit" /\ cpc' # "commit" /\ loc.verdict = "accept"
        /\ blockchain = EmptyChain) =>
        LET txid == loads(loc.solution).transactions[1].txid IN
        /\ Len(blockchain'.blocks) = 1
        /\ DOMAIN blockchain'.utxo_set = {txid}
        /\ blockchain'.utxo_set[txid] = [v_outs |-> {0}, block_id |-> 0]

\* C3 as stated: when the only registered connection is the miner whose
\* solution is under vote, no verify request is written, and the accepted
\* block leaves a chain of length 1 whose UTXO set is the coinbase outpoint.
C3_SoleMinerNotPolled ==
    [][ /\ (Step("send_verify", "wait_over") /\ nodes = <<Origin(loc.solution)>>) =>
              toNode' = toNode
        /\ FirstBlockCommitted
      ]_vars

\* C3, amended: with one connected miner the vote is not skipped: the verify
\* request is written to that miner, the verdict waits for voting_over, and
\* a block accepted into the empty chain leaves a chain of length 1 whose
\* UTXO set holds exactly the single outpoint of the coinbase.
C3_SoleMinerVotes ==
    [][ /\ (Step("send_verify", "wait_over") /\ nodes = <<Origin(loc.solution)>>
              /\ mstate[Origin(loc.solution)] = "on") =>
              LET o == Origin(loc.solution) IN
              /\ polled' = {o}
              /\ toNode'[o] = Append(toNode[o], Verify(loc.solution, loc.diff))
        /\ (cpc = "wait_over" /\ cpc' # "wait_over") => voting_over
        /\ FirstBlockCommitted
      ]_vars

\* One miner only was ever connected, it was polled, and its block is the chain.
C3_Witness ==
    /\ cpc = "ui"
    /\ nodes = <<1>>
    /\ \A m \in Conns \ {1} : mstate[m] = "off"
    /\ polled = {1}
    /\ verdicts = <<"accept">>
    /\ Len(blockchain.blocks) = 1

\* ---------------------------------------------------------------------- C4
\* C4: once the veredict final:true has been broadcast and the miner whose
\* solution was rejected has taken every message sent to it, that miner has a
\* mine_block thread.
C4_OriginatorResumes ==
    (cpc = "commit" /\ loc.verdict = "final" /\ lost = 0
        /\ toNode[Origin(loc.solution)] = <<>>) =>
        threads[Origin(loc.solution)] # <<>>

\* ---------------------------------------------------------------------- C5
\* A miner whose mine_block thread consumed the mining_signal of the last
\* veredict and ended, with one message on its way to the coordinator.
Resumed(m) ==
    /\ m \in SeqSet(nodes)
    /\ mstate[m] = "on"
    /\ toNode[m] = <<>>
    /\ ~mining_signal[m]
    /\ threads[m] = <<>>
    /\ Len(toMaster[m]) = 1

\* C5: after a veredict final:true, the solution of a miner that resumed is
\* appended to solution_queue and starts a vote.
C5_RetryQueued ==
    [][ \A m \in Conns :
          (HandleSolution(m) /\ LastVerdict = "final" /\ cpc \in {"commit", "ui"}
              /\ lost = 0 /\ Resumed(m)) =>
              /\ solution_queue' = Append(solution_queue, Head(toMaster[m]).block)
              /\ voting_started'
      ]_vars

\* ---------------------------------------------------------------------- C6
\* C6: every solution that reaches the coordinator during a round (idle
\* clear) is appended to solution_queue, in arrival order.
C6_QueueKeepsArrivals ==
    [][ \A m \in Conns :
          (Takes(m, "solution") /\ ~idle) =>
              solution_queue' = Append(solution_queue, Head(toMaster[m]).block)
      ]_vars

\* ---------------------------------------------------------------------- C7
\* C7: while the coordinator waits for voting_over, and the connections left
\* in nodes are running miners that were all sent the verify request, a vote
\* is still on its way: the round can end although other miners were lost.
C7_LossDoesNotBlock ==
    (cpc = "wait_over" /\ ~voting_over /\ nodes # <<>>
        /\ \A m \in SeqSet(nodes) : m \in polled /\ mstate[m] = "on") =>
        VoteComing

\* ---------------------------------------------------------------------- C8
\* C8: while the coordinator waits for voting_over and no miner was lost, a
\* vote is still on its way: the vote can close although miners joined.
C8_JoinDoesNotBlock ==
    (cpc = "wait_over" /\ ~voting_over /\ lost = 0) => VoteComing

\* ---------------------------------------------------------------------- C9
\* C9: when a vote is appended to consensus, voting_over is set by that
\* arrival iff |consensus| = |nodes| or the sum of consensus is at least
\* 0.51 * |nodes|, both read right after the append; no other step sets
\* voting_over.
C9_VotingOverSet ==
    [][ /\ \A m \in Conns :
              (Takes(m, "verify") /\ voting_started) =>
                  LET fin == \/ Len(consensus') = Len(nodes)
                             \/ 100 * SumSeq(consensus') >= 51 * Len(nodes)
                  IN  /\ consensus' = Append(consensus, Head(toMaster[m]).vote)
                      /\ voting_over' <=> (voting_over \/ fin)
        /\ (~voting_over /\ voting_over') =>
              \E m \in Conns : Takes(m, "verify") /\ Len(consensus') = Len(consensus) + 1
      ]_vars

\* A vote closed by the count of the votes, their sum short of the quorum.
C9_Witness ==
    /\ cpc = "wait_over"
    /\ voting_over
    /\ Len(consensus) = Len(nodes)
    /\ 100 * SumSeq(consensus) < 51 * Len(nodes)

\* --------------------------------------------------------------------- C10
\* A solution taken while idle or voting_started is set changes nothing.
SolutionDropped ==
    UNCHANGED <<solution_queue, consensus, blockchain, idle, voting_started, voting_over>>

\* C10 as stated: a solution taken while idle or voting_started is set is
\* dropped; one taken while both are clear is appended to solution_queue as
\* the pair of the block and its origin connection, and sets voting_started.
C10_QueuedWithOrigin ==
    [][ \A m \in Conns :
          Takes(m, "solution") =>
              IF idle \/ voting_started
              THEN SolutionDropped
              ELSE /\ Len(solution_queue') = Len(solution_queue) + 1
                   /\ solution_queue'[Len(solution_queue')] =
                          <<Head(toMaster[m]).block, m>>
                   /\ voting_started'
      ]_vars

\* C10, amended: a solution taken while idle or voting_started is set is
\* dropped (solution_queue, consensus, the chain and the three flags are
\* unchanged); one taken while both are clear has its block, and nothing
\* else, appended to solution_queue and sets voting_started.
C10_QueuedBlockOnly ==
    [][ \A m \in Conns :
          Takes(m, "solution") =>
              IF idle \/ voting_started
              THEN SolutionDropped
              ELSE /\ solution_queue' = Append(solution_queue, Head(toMaster[m]).block)
                   /\ voting_started'
                   /\ UNCHANGED <<consensus, blockchain, idle, voting_over>>
      ]_vars

\* One solution is queued and under vote, another one has reached the
\* coordinator.
C10_Witness ==
    /\ Len(solution_queue) = 1
    /\ voting_started
    /\ \E m \in Conns : Receives(m, "solution")

\* --------------------------------------------------------------------- C11
\* C11: a vote that the coordinator takes off a stream while voting_started
\* is not set changes neither consensus nor voting_over, and consensus grows
\* only while voting_started is set.
C11_VoteDropped ==
    [][ /\ \A m \in Conns :
              (Takes(m, "verify") /\ ~voting_started) =>
                  /\ consensus' = consensus
                  /\ voting_over' = voting_over
        /\ Len(consensus') > Len(consensus) => voting_started /\ voting_started'
      ]_vars

\* A vote is at the head of a served stream while no vote is open.
C11_Witness ==
    \E m \in Conns : Receives(m, "verify") /\ ~voting_started

\* --------------------------------------------------------------------- C12
\* The miner m writes a solution to its stream.
Emits(m) ==
    /\ Len(toMaster'[m]) = Len(toMaster[m]) + 1
    /\ toMaster'[m][Len(toMaster'[m])].type = "solution"

\* A candidate is under vote: voting_started is set and the verdict on the
\* candidate has not been broadcast.
VoteInProgress == voting_started /\ cpc # "commit"

\* C12 as stated: no miner writes a solution while a vote is in progress, and
\* a miner that has processed a verify request (solution_found is set) writes
\* none before a verdict clears the flag.
C12_NoSolutionDuringVote ==
    [][ \A m \in Conns :
            Emits(m) => ~VoteInProgress /\ ~solution_found[m]
      ]_vars

\* The second half of C12 alone: a miner that has processed the verify
\* request of the open vote writes no solution.
C12_VoterSilent ==
    [][ \A m \in Conns :
            (Emits(m) /\ VoteInProgress) => ~solution_found[m]
      ]_vars

\* ------------------------------------------------------------- C13, C14
\* The handle_connection thread of m handles a chain message.
ChainStep(m) ==
    /\ Receives(m, "chain")
    /\ toMaster'[m] = Tail(toMaster[m]) \/ hpc'[m] = "done"

Got(m) == Received(Head(toMaster[m]))
Longer(m) == Len(Got(m).blocks) > Len(blockchain.blocks)

\* msg is written to every registered running node.
SentToAll(msg) ==
    \A n \in Reached(nodes) : toNode'[n] = Append(toNode[n], msg)

\* C13 as stated: the chain is replaced by the received one and broadcast if
\* and only if the received chain is strictly longer and passes
\* validate_chain; in every other case the chain is unchanged and nothing is
\* broadcast.
C13_BroadcastIffTaken ==
    [][ \A m \in Conns : ChainStep(m) =>
            IF Longer(m) /\ validate_chain(Got(m)).res = "True"
            THEN /\ blockchain'.blocks = Got(m).blocks
                 /\ SentToAll(ChainMsg(serialize(Got(m))))
            ELSE /\ blockchain' = blockchain
                 /\ toNode' = toNode
      ]_vars

\* C13, amended: the chain is replaced by the received one if and only if
\* the received chain is strictly longer and validate_chain returns True on
\* it; whenever the received chain is strictly longer and validate_chain
\* returns, the chain the coordinator then holds (the received one, or its
\* own unchanged chain when the received one is invalid) is written to every
\* registered node; a chain that is not longer changes nothing and nothing
\* is written; when validate_chain raises, the chain is unchanged, nothing
\* is written and the connection of the sender is deregistered.
C13_ChainHandled ==
    [][ \A m \in Conns : ChainStep(m) =>
            LET res == validate_chain(Got(m)).res IN
            /\ ~Longer(m) => /\ blockchain' = blockchain
                             /\ toNode' = toNode
                             /\ nodes' = nodes
            /\ (Longer(m) /\ res = "True") =>
                    /\ blockchain' = validate_chain(Got(m)).chain
                    /\ blockchain'.blocks = Got(m).blocks
                    /\ SentToAll(ChainMsg(serialize(Got(m))))
            /\ (Longer(m) /\ res = "False") =>
                    /\ blockchain' = blockchain
                    /\ SentToAll(ChainMsg(serialize(blockchain)))
            /\ (Longer(m) /\ res = "raise") =>
                    /\ blockchain' = blockchain
                    /\ toNode' = toNode
                    /\ m \notin SeqSet(nodes')
      ]_vars

\* A longer chain that validate_chain rejects has been handled: the chain of
\* the coordinator is as it was and is in the streams to the nodes.
C13_Witness ==
    /\ ret.op = "chain"
    /\ ret.res = "False"
    /\ Len(ret.got) > Len(blockchain.blocks)
    /\ \A n \in SeqSet(nodes) :
          /\ toNode[n] # <<>>
          /\ toNode[n][Len(toNode[n])] = ChainMsg(serialize(blockchain))

\* C14 as stated: a received chain that passes validate_chain replaces an
\* own chain that fails it whatever the lengths, and a longer valid chain
\* replaces a shorter valid one.
C14_ValidWins ==
    [][ \A m \in Conns : ChainStep(m) =>
            LET own == validate_chain(blockchain).res
                res == validate_chain(Got(m)).res
            IN  /\ (own # "True" /\ res = "True") => blockchain'.blocks = Got(m).blocks
                /\ (own = "True" /\ res = "True" /\ Longer(m)) =>
                        blockchain'.blocks = Got(m).blocks
      ]_vars

\* C14, amended: only the length of the own chain is looked at.  A received
\* chain that is not strictly longer never replaces the own chain, even when
\* the own chain fails validate_chain and the received one passes it; a
\* strictly longer chain on which validate_chain returns True replaces it,
\* whether the own chain is valid or not.
C14_LongerValidWins ==
    [][ \A m \in Conns : ChainStep(m) =>
            /\ ~Longer(m) => blockchain' = blockchain
            /\ (Longer(m) /\ validate_chain(Got(m)).res = "True") =>
                    blockchain'.blocks = Got(m).blocks
      ]_vars

\* A chain that passes validate_chain and is not longer has been handled
\* while the own chain fails validate_chain: the own chain is still there.
C14_Witness ==
    /\ ret.op = "chain"
    /\ ret.res = "short"
    /\ ret.got # <<>>
    /\ ret.got # blockchain.blocks
    /\ validate_chain([blocks |-> ret.got, utxo_set |-> <<>>]).res = "True"
    /\ validate_chain(blockchain).res = "False"

\* -------------------------------------------------------------- C15..C18
\* add_block has returned, or raised, on the chain of the coordinator.
AddStep == Len(blockchain'.blocks) = Len(blockchain.blocks) + 1

\* The outpoints spent by the inputs of the transactions of b, and the
\* outpoints b creates.
SpentBy(b) ==
    {<<i.tx_id, i.v_out>> : i \in SeqSet(InputsOf(b.transactions))}
CreatedBy(b) ==
    UNION {{<<b.transactions[k].txid, v>> : v \in 0..(Len(b.transactions[k].tx.outputs) - 1)}
              : k \in 1..Len(b.transactions)}

\* C15 as stated: no entry of the UTXO set has an empty v_outs.
C15_NoEmptyEntry ==
    \A id \in DOMAIN blockchain.utxo_set : blockchain.utxo_set[id].v_outs # {}

\* C16 as stated: after add_block(B), B a block that validate_block accepts,
\* the unspent outpoints are the previous ones less those spent by B plus
\* those created by B, the new entries with block_id = |chain| - 1.
C16_UnspentUpdated ==
    [][ (AddStep /\ ret'.valid /\ ~ret'.raised) =>
            /\ Unspent(blockchain') =
                   (Unspent(blockchain) \ SpentBy(ret'.block)) \cup CreatedBy(ret'.block)
            /\ \A p \in CreatedBy(ret'.block) :
                   blockchain'.utxo_set[p[1]].block_id = Len(blockchain'.blocks) - 1
      ]_vars

\* C17 as stated: every entry of the UTXO set names, by block_id, a block of
\* the chain that contains its txid, and every index of v_outs is an output
\* of that transaction.
C17_EntriesPointIntoChain ==
    \A id \in DOMAIN blockchain.utxo_set :
        LET e == blockchain.utxo_set[id] IN
        /\ e.block_id \in 0..(Len(blockchain.blocks) - 1)
        /\ HasTx(blockchain.blocks[e.block_id + 1], id)
        /\ \A v \in e.v_outs :
              v < Len(TxOf(blockchain.blocks[e.block_id + 1], id).outputs)

\* The pool without the transactions of b, in the order of the pool.
Kept(txs, b) == SelectSeq(txs, LAMBDA t : ~HasTx(b, hash_transaction(t)))

\* C18 as stated: add_block(B, pool), B a block that validate_block accepts,
\* returns the pool without the transactions of B, the others in their
\* order.
C18_PoolPruned ==
    [][ (AddStep /\ ret'.valid) =>
            /\ ~ret'.raised
            /\ txpool' = Kept(ret'.pool, ret'.block)
      ]_vars

\* ------------------------------------------------------------- C19, C20
\* The sum of the amounts of the outputs the inputs refer to.
RECURSIVE InAmount(_, _)
InAmount(bc, ins) ==
    IF ins = <<>> THEN 0
    ELSE LET o == OutputOf(bc, Head(ins).tx_id, Head(ins).v_out)
         IN  (IF Carries(o) THEN o.amount ELSE 0) + InAmount(bc, Tail(ins))

\* The inputs of t that refer to an output of the chain
Referring(bc, t) ==
    IF "inputs" \notin DOMAIN t THEN <<>>
    ELSE SelectSeq(t.inputs, LAMBDA i : <<i.tx_id, i.v_out>> \in Outpoints(bc))

Difference(bc, t) == InAmount(bc, Referring(bc, t)) - OutAmount(OutputsOrDefault(t))

\* C19 as stated: an accepted transaction returns the sum of the referenced
\* amounts less the sum of its output amounts, as an int that `is False`
\* tells from FAIL even when it is 0, and FAIL is returned whenever that
\* difference is negative.
C19_FeeRule ==
    ret.op = "validate_transaction" =>
        /\ ret.res.kind = "int" =>
               /\ ret.res.val = Difference(blockchain, ret.tx)
               /\ ret.res.val >= 0
        /\ Difference(blockchain, ret.tx) < 0 => ret.res.kind = "False"

\* C19 on the transactions that have inputs, none of which refers to an
\* output of amount 0.
C19_FeeRuleNonZero ==
    (/\ ret.op = "validate_transaction"
     /\ "inputs" \in DOMAIN ret.tx
     /\ \A k \in 1..Len(Referring(blockchain, ret.tx)) :
           LET i == Referring(blockchain, ret.tx)[k]
               o == OutputOf(blockchain, i.tx_id, i.v_out)
           IN  Carries(o) => o.amount # 0) =>
        /\ ret.res.kind = "int" =>
               /\ ret.res.val = Difference(blockchain, ret.tx)
               /\ ret.res.val >= 0
        /\ Difference(blockchain, ret.tx) < 0 => ret.res.kind = "False"

\* The inputs of t name an outpoint twice.
HasDup(t) ==
    /\ "inputs" \in DOMAIN t
    /\ \E i, j \in 1..Len(t.inputs) :
        /\ i < j
        /\ t.inputs[i].tx_id = t.inputs[j].tx_id
        /\ t.inputs[i].v_out = t.inputs[j].v_out

\* The position of the first input that names an outpoint named before it.
FirstRepeat(t) ==
    CHOOSE j \in 1..Len(t.inputs) :
        /\ \E i \in 1..(j - 1) : /\ t.inputs[i].tx_id = t.inputs[j].tx_id
                                  /\ t.inputs[i].v_out = t.inputs[j].v_out
        /\ \A k \in 1..(j - 1) : \A i \in 1..(k - 1) :
              \/ t.inputs[i].tx_id # t.inputs[k].tx_id
              \/ t.inputs[i].v_out # t.inputs[k].v_out

\* C20 as stated: a transaction that names an outpoint twice returns FAIL
\* and crypto.verify has not been called on any of its inputs.
C20_DupBeforeSignature ==
    (ret.op = "validate_transaction" /\ HasDup(ret.tx)) =>
        /\ ret.res.kind = "False"
        /\ ret.res.checks = 0

\* C20, amended: a transaction that names an outpoint twice is never
\* accepted.  The repetition is found when the loop reaches the second
\* occurrence, before the lookup, the key comparison and the signature check
\* of that occurrence, and after the inputs before it, the first occurrence
\* among them, have gone through theirs: when they pass, FAIL is returned
\* after one call of crypto.verify for each of them; when one of them does
\* not, the outcome is the outcome of its check.
C20_DupRejected ==
    [][ (ret' # ret /\ ret'.op = "validate_transaction" /\ HasDup(ret'.tx)) =>
            LET k == FirstRepeat(ret'.tx)
                before == InputLoop(blockchain, SubSeq(ret'.tx.inputs, 1, k - 1), {}, 0, {}, 0)
            IN  /\ ret'.res.kind # "int"
                /\ before.kind = "done" => ret'.res = FAIL(k - 1)
                /\ before.kind # "done" => ret'.res = before
      ]_vars

\* A transaction whose two inputs are the same valid input has been
\* rejected after one call of crypto.verify.
C20_Witness ==
    /\ ret.op = "validate_transaction"
    /\ HasDup(ret.tx)
    /\ ret.res = FAIL(1)
    /\ validate_transaction(blockchain, [ret.tx EXCEPT !.inputs = <<ret.tx.inputs[1]>>]).kind = "int"

\* ------------------------------------------------------------------ C21
\* The input i names an outpoint that is not in the UTXO set of bc.
Absent(bc, i) ==
    \/ i.tx_id \notin DOMAIN bc.utxo_set
    \/ i.v_out \notin bc.utxo_set[i.tx_id].v_outs

HasAbsent(bc, t) ==
    /\ "inputs" \in DOMAIN t
    /\ \E k \in 1..Len(t.inputs) : Absent(bc, t.inputs[k])

\* An input of t refers to an output of the chain whose amount is 0.
SpendsZero(bc, t) ==
    \E k \in 1..Len(Referring(bc, t)) :
        LET i == Referring(bc, t)[k]
            o == OutputOf(bc, i.tx_id, i.v_out)
        IN  Carries(o) /\ o.amount = 0

\* C21 as stated: validate_transaction returns FAIL and leaves the chain and
\* the UTXO set as they were for every transaction one of whose inputs has a
\* tx_id without an entry in the UTXO set or a v_out that is not in the
\* v_outs of the entry.
C21_AbsentInputFails ==
    [][ (ret' # ret /\ ret'.op = "validate_transaction" /\ HasAbsent(blockchain, ret'.tx)) =>
            /\ ret'.res.kind = "False"
            /\ blockchain' = blockchain
      ]_vars

\* C21 on the transactions none of whose inputs refers to an output of
\* amount 0.
C21_AbsentInputFailsNonZero ==
    [][ (/\ ret' # ret /\ ret'.op = "validate_transaction"
         /\ HasAbsent(blockchain, ret'.tx)
         /\ ~SpendsZero(blockchain, ret'.tx)) =>
            /\ ret'.res.kind = "False"
            /\ blockchain' = blockchain
      ]_vars

\* ------------------------------------------------------------------ C22
\* The input i carries the key of the owner of the output it refers to and a
\* signature by that key over the amount string, or the data string, of the
\* output.
Owned(bc, i) ==
    LET o == OutputOf(bc, i.tx_id, i.v_out)
        pub == load_pubkey(i.key)
    IN  /\ hash_pubkey(pub) = o.keyhash
        /\ verify(pub, load_signature(i.signature), Payload(o))

AllOwned(bc, t) ==
    \A k \in 1..Len(Referring(bc, t)) : Owned(bc, Referring(bc, t)[k])

\* C22 as stated: a transaction is accepted only if every input carries the
\* key whose hash is the keyhash of the referenced output and a signature
\* that verifies under that key over the decimal string of the amount of the
\* output, or over its data string; a transaction with an input that carries
\* another owner's key, a signature by another private key or a signature
\* over another amount string returns FAIL.
C22_OwnerOnly ==
    ret.op = "validate_transaction" =>
        /\ ret.res.kind = "int" => AllOwned(blockchain, ret.tx)
        /\ ~AllOwned(blockchain, ret.tx) => ret.res.kind = "False"

\* C22 on the transactions none of whose inputs refers to an output of
\* amount 0.
C22_OwnerOnlyNonZero ==
    (ret.op = "validate_transaction" /\ ~SpendsZero(blockchain, ret.tx)) =>
        /\ ret.res.kind = "int" => AllOwned(blockchain, ret.tx)
        /\ ~AllOwned(blockchain, ret.tx) => ret.res.kind = "False"

\* ------------------------------------------------------------------ C23
\* The data strings of the outputs the inputs of t refer to
InData(bc, t) ==
    {OutputOf(bc, Referring(bc, t)[k].tx_id, Referring(bc, t)[k].v_out).data :
        k \in {j \in 1..Len(Referring(bc, t)) :
                 ~Carries(OutputOf(bc, Referring(bc, t)[j].tx_id,
                                   Referring(bc, t)[j].v_out))}}

\* The data strings of the outputs of t
OutStrings(t) ==
    {OutputsOrDefault(t)[k].data :
        k \in {j \in 1..Len(OutputsOrDefault(t)) : ~Carries(OutputsOrDefault(t)[j])}}

\* t spends unspent data outputs, each once and as their owner, into data
\* outputs.
MovesData(bc, t) ==
    /\ t.version = 1
    /\ "inputs" \in DOMAIN t /\ t.inputs # <<>>
    /\ ~HasDup(t) /\ ~HasAbsent(bc, t)
    /\ AllOwned(bc, t)
    /\ \A k \in 1..Len(t.inputs) : ~Carries(OutputOf(bc, t.inputs[k].tx_id, t.inputs[k].v_out))
    /\ \A k \in 1..Len(OutputsOrDefault(t)) : ~Carries(OutputsOrDefault(t)[k])

\* C23 as stated: a transaction is accepted only if every data string of the
\* outputs its inputs refer to is the data of one of its outputs; one that
\* drops such a string returns FAIL; one that moves data and carries every
\* string over, with or without new data outputs, returns the fee 0.
C23_DataKept ==
    ret.op = "validate_transaction" =>
        /\ ret.res.kind = "int" => InData(blockchain, ret.tx) \subseteq OutStrings(ret.tx)
        /\ ~(InData(blockchain, ret.tx) \subseteq OutStrings(ret.tx)) => ret.res.kind = "False"
        /\ (/\ MovesData(blockchain, ret.tx)
            /\ InData(blockchain, ret.tx) \subseteq OutStrings(ret.tx)) =>
               (ret.res.kind = "int" /\ ret.res.val = 0)

\* C23 on the transactions none of whose inputs refers to an output whose
\* data is the empty string.
C23_DataKeptNonEmpty ==
    (ret.op = "validate_transaction" /\ NoBytes \notin InData(blockchain, ret.tx)) =>
        /\ ret.res.kind = "int" => InData(blockchain, ret.tx) \subseteq OutStrings(ret.tx)
        /\ ~(InData(blockchain, ret.tx) \subseteq OutStrings(ret.tx)) => ret.res.kind = "False"
        /\ (/\ MovesData(blockchain, ret.tx)
            /\ InData(blockchain, ret.tx) \subseteq OutStrings(ret.tx)) =>
               (ret.res.kind = "int" /\ ret.res.val = 0)

\* ------------------------------------------------------------------ C24
\* C24 as stated: validation never raises.  validate_transaction ends by
\* returning a fee or FAIL, and validate_block by returning true or false,
\* for every transaction and block of the shape the data model allows.
C24_NeverRaises ==
    /\ ret.op = "validate_transaction" => ret.res.kind \in {"int", "False"}
    /\ ret.op = "validate_block" => ret.res \in {"True", "False"}

\* C24 for validate_transaction alone
C24_TransactionNeverRaises ==
    ret.op = "validate_transaction" => ret.res.kind \in {"int", "False"}

\* C24 for validate_block alone
C24_BlockNeverRaises ==
    ret.op = "validate_block" => ret.res \in {"True", "False"}

\* ------------------------------------------------------------------ C25
\* The coinbase transactions of the block b, and the others, in their order
CoinbasesOf(b) ==
    SelectSeq([k \in 1..Len(b.transactions) |-> b.transactions[k].tx],
              LAMBDA t : t.coinbase)
OthersOf(b) ==
    SelectSeq([k \in 1..Len(b.transactions) |-> b.transactions[k].tx],
              LAMBDA t : ~t.coinbase)

\* b has one coinbase, with one output, whose amount is the reward and the
\* fees validate_transaction returns for the other transactions of b.
OneCoinbase(bc, b) ==
    /\ Len(CoinbasesOf(b)) = 1
    /\ "outputs" \in DOMAIN CoinbasesOf(b)[1]
    /\ Len(CoinbasesOf(b)[1].outputs) = 1
    /\ Carries(CoinbasesOf(b)[1].outputs[1])
    /\ CoinbasesOf(b)[1].outputs[1].amount = reward + Fees(bc, OthersOf(b))

\* C25 as stated: validate_block returns true only for a block with exactly
\* one coinbase transaction, whose single output pays the reward and the fees
\* of the other transactions of the block; a block without a coinbase and a
\* block with two or more are rejected, whatever the amounts.
C25_OneCoinbase ==
    ret.op = "validate_block" =>
        /\ ret.res = "True" => OneCoinbase(blockchain, ret.block)
        /\ Len(CoinbasesOf(ret.block)) # 1 => ret.res = "False"

\* C25 on the blocks none of whose coinbase transactions pays the amount 0.
C25_OneCoinbaseNonZero ==
    (/\ ret.op = "validate_block"
     /\ \A k \in 1..Len(CoinbasesOf(ret.block)) :
           LET c == CoinbasesOf(ret.block)[k]
           IN  ("outputs" \in DOMAIN c /\ c.outputs # <<>> /\ Carries(c.outputs[1]))
                  => c.outputs[1].amount # 0) =>
        /\ ret.res = "True" => OneCoinbase(blockchain, ret.block)
        /\ Len(CoinbasesOf(ret.block)) # 1 => ret.res = "False"

\* ------------------------------------------------------------------ C26
\* The last call was validate_chain on the chain object as it is now: the
\* integrity command, or the chain handler that took the received chain.
Validated ==
    \/ ret.op = "validate_chain"
    \/ ret.op = "chain" /\ ret.res = "True"

C26_WitnessIntegrity ==
    /\ ret.op = "validate_chain" /\ ret.res = "True"
    /\ \E k \in 2..Len(blockchain.blocks) : InputsOf(blockchain.blocks[k].transactions) # <<>>

\* ------------------------------------- the difficulty and its encoding
MaxNodes == 255     \* connections registered when the difficulty is read

HexDigit == <<"0", "1", "2", "3", "4", "5", "6", "7",
              "8", "9", "a", "b", "c", "d", "e", "f">>

\* the digits of hex(n), most significant first, for n >= 0
RECURSIVE HexOf(_)
HexOf(n) ==
    IF n < 16 THEN <<HexDigit[n + 1]>>
    ELSE Append(HexOf(n \div 16), HexDigit[(n % 16) + 1])

\* Python's hex(n) for n >= 0: the prefix 0x and the lowercase digits
hex(n) == <<"0", "x">> \o HexOf(n)

ffffff == <<"f", "f", "f", "f", "f", "f">>

\* Interface.difficulty with n connections registered: the text it returns
DifficultyText(n) ==
    LET diff == hex(32 - (base_difficulty + FloorLog4(n + 1)))
    IN  IF Len(diff) = 3
        THEN <<"0">> \o SubSeq(diff, 3, Len(diff)) \o ffffff
        ELSE SubSeq(diff, 3, Len(diff)) \o ffffff

DigitValue(c) == CHOOSE v \in 0..15 : HexDigit[v + 1] = c

\* int(s, base=16) of a string of hex digits
RECURSIVE Int16(_)
Int16(s) ==
    IF s = <<>> THEN 0
    ELSE 16 * Int16(SubSeq(s, 1, Len(s) - 1)) + DigitValue(s[Len(s)])

\* A natural number of any size as its base-256 digits, most significant
\* first and without leading zeros (Python integers have no width).
RECURSIVE Bytes(_)
Bytes(n) == IF n = 0 THEN <<>> ELSE Append(Bytes(n \div 256), n % 256)

Zeros(k) == [j \in 1..k |-> 0]

\* PoWBlock.target_value of a target text whose first byte is 3 or more:
\* int(target[2:], 16) * 256 ** (int(target[0:2], 16) - 3)
target_value(target) ==
    LET mantissa == Int16(SubSeq(target, 3, Len(target)))
        exponent == Int16(SubSeq(target, 1, 2))
    IN  IF mantissa = 0 THEN <<>> ELSE Bytes(mantissa) \o Zeros(exponent - 3)

\* a < b for two numbers given by their base-256 digits
RECURSIVE Less(_, _)
Less(a, b) ==
    IF Len(a) # Len(b) THEN Len(a) < Len(b)
    ELSE IF a = <<>> THEN FALSE
    ELSE IF a[1] # b[1] THEN a[1] < b[1]
    ELSE Less(Tail(a), Tail(b))

\* The difficulty property is read with n connections registered.
DifficultyCall(n) ==
    /\ cpc = "ui"
    /\ ret' = [op |-> "difficulty", n |-> n, text |-> DifficultyText(n),
               value |-> target_value(DifficultyText(n))]
    /\ UNCHANGED <<cvars, toNode, toMaster, mvars, sent, txpool>>

\* ------------------------------------------------- the merkle root alone
MaxList == 4        \* transactions in a list handed to merkle_root

\* the transactions the lists are made of
Leaves == {CoinbaseTx(1, reward), CoinbaseTx(2, reward), Idle}

Lists == UNION {[1..k -> Leaves] : k \in 1..MaxList}

\* merkle_root(L), merkle_root(L + L) and PoWBlock(transactions=L, ...) are
\* evaluated as test01_merkle_root does.
MerkleCall(L) ==
    /\ cpc = "ui"
    /\ ret' = [op |-> "merkle_root", list |-> L,
               once |-> merkle_root(L), twice |-> merkle_root(L \o L),
               header |-> PoWBlock(L, GENESIS_HASH, difficulty(nodes)).hash_merkle]
    /\ UNCHANGED <<cvars, toNode, toMaster, mvars, sent, txpool>>

PureNext ==
    \/ \E n \in 0..MaxNodes : DifficultyCall(n)
    \/ \E L \in Lists : MerkleCall(L)

SpecPure == Init /\ [][PureNext]_vars

\* ------------------------------------------------------------------ C27
RECURSIVE Pow4(_)
Pow4(k) == IF k = 0 THEN 1 ELSE 4 * Pow4(k - 1)

Listed == {0, 3, 15, 63, 255}

\* C27: the announced difficulty is the two-digit lowercase hex of 32 - d
\* followed by ffffff, where d = 2 + floor(log4(|nodes| + 1)); for 0, 3, 15,
\* 63 and 255 nodes it is 1effffff, 1dffffff, 1cffffff, 1bffffff and
\* 1affffff, and the target_value of these encodings strictly decreases
\* as the number of nodes grows.
C27_Difficulty ==
    ret.op = "difficulty" =>
        /\ Len(ret.text) = 8
        /\ SubSeq(ret.text, 3, 8) = ffffff
        /\ LET d == 32 - Int16(SubSeq(ret.text, 1, 2))
           IN  /\ d >= 2
               /\ Pow4(d - 2) <= ret.n + 1
               /\ ret.n + 1 < Pow4(d - 1)
        /\ ret.n = 0 => ret.text = <<"1", "e">> \o ffffff
        /\ ret.n = 3 => ret.text = <<"1", "d">> \o ffffff
        /\ ret.n = 15 => ret.text = <<"1", "c">> \o ffffff
        /\ ret.n = 63 => ret.text = <<"1", "b">> \o ffffff
        /\ ret.n = 255 => ret.text = <<"1", "a">> \o ffffff
        /\ \A m \in Listed :
              (ret.n \in Listed /\ m < ret.n) =>
                  Less(ret.value, target_value(DifficultyText(m)))
        /\ \A m \in 0..MaxNodes :
              m < ret.n => ~Less(target_value(DifficultyText(m)), ret.value)

\* The difficulty has been read with 255 connections registered.
C27_Witness == ret.op = "difficulty" /\ ret.n = 255

\* ------------------------------------------------------------------ C28
\* merkle_root(L + L) has returned the value merkle_root(L) returned
SameTwice ==
    /\ ret.once # IndexError
    /\ ret.twice # IndexError
    /\ ret.twice = ret.once

\* C28 as stated: for any ordered, non-empty transaction list L,
\* merkle_root(L + L) equals merkle_root(L), and merkle_root(L) equals the
\* hash_merkle in the header of a block built over L.
C28_Doubling ==
    ret.op = "merkle_root" => (SameTwice /\ ret.header = ret.once)

\* C28 amended: merkle_root(L + L) equals merkle_root(L) exactly when L
\* holds one transaction, and the hash_merkle of a block built over L is
\* what merkle_root(L) returns.
C28_DoublingOfOne ==
    ret.op = "merkle_root" =>
        /\ SameTwice <=> Len(ret.list) = 1
        /\ ret.header = ret.once

\* merkle_root has been called on a list of one transaction.
C28_Witness ==
    /\ ret.op = "merkle_root"
    /\ Len(ret.list) = 1
    /\ ret.once # IndexError

\* --------------------------------------- a miner that always votes false
Liar == 1           \* the connection of the PoWSelfishNode process

\* PoWSelfishNode.validate_block, reached from the case "verify" of run:
\* the vote sent is False, which sum() counts as 0.
RecvVerifySelfish(m) ==
    /\ Gets(m, "verify")
    /\ toNode' = [toNode EXCEPT ![m] = Tail(@)]
    /\ solution_found' = [solution_found EXCEPT ![m] = TRUE]
    /\ toMaster' = [toMaster EXCEPT ![m] = Append(@, Vote(0))]
    /\ UNCHANGED <<cvars, mstate, mchain, mining_signal, pool, threads, lost>>
    /\ UNCHANGED evars

LiarNext ==
    \/ \E m \in Conns : Accept(m)
    \/ \E m \in Conns : HandlerInit(m)
    \/ \E m \in Conns : HandleSolution(m)
    \/ \E m \in Conns : HandleVote(m)
    \/ \E m \in Conns : HandleEOF(m)
    \/ MineBegin
    \/ SendMine
    \/ WaitStarted
    \/ SendVerify
    \/ WaitOver
    \/ ReadVotes
    \/ Decide
    \/ SendVerdict
    \/ Commit
    \/ \E m \in Conns : RecvMine(m)
    \/ \E m \in Conns \ {Liar} : RecvVerify(m)
    \/ RecvVerifySelfish(Liar)
    \/ \E m \in Conns : RecvVeredict(m)
    \/ \E m \in Conns : RecvChain(m)
    \/ \E m \in Conns : \E k \in ThreadIds(m) : ThreadInit(m, k)
    \/ \E m \in Conns : \E k \in ThreadIds(m) : ThreadTop(m, k)
    \/ \E m \in Conns : \E k \in ThreadIds(m) : ThreadWake(m, k)
    \/ \E m \in Conns : \E k \in ThreadIds(m) : ThreadRecheck(m, k)
    \/ \E m \in Conns : \E k \in ThreadIds(m) : ThreadSolve(m, k)
    \/ \E m \in Conns : \E k \in ThreadIds(m) : ThreadMiss(m, k)
    \/ \E m \in Conns : MinerLost(m)

SpecLiar == Init /\ [][LiarNext]_vars

\* ------------------------------------------------------------------ C29
\* The coordinator takes the branch of line 78 with the liar registered.
DecidesWithLiar ==
    /\ cpc = "decide"
    /\ cpc' = "send_verdict"
    /\ Liar \in SeqSet(nodes)

C30_OneState ==
    [][cpc = "decide" => (nodes' = nodes /\ consensus' = consensus)]_vars

\* The same on the verdict: when the branch of line 78 is taken, the sum it
\* compares is the sum of the vote list of the state whose node count it
\* reads.
C30_VerdictOfOneState ==
    [][(cpc = "decide" /\ cpc' = "send_verdict") => loc.acc = SumSeq(consensus)]_vars

\* ------------------------------------------------------------------ C31
\* Interface.mine makes one call of send_to_all.
Broadcasts ==
    /\ cpc \in {"send_mine", "send_verify", "send_verdict"}
    /\ cpc' # cpc

\* C31: when a broadcast fails for a subset of the miners the coordinator
\* proceeds: only connections whose peer has gone are removed from nodes,
\* and every other connected miner, one listed right after a failing
\* connection included, receives the message.
C31_BroadcastReachesOthers ==
    [][Broadcasts =>
          /\ SeqSet(nodes) \ SeqSet(nodes') \subseteq Gone
          /\ \A m \in SeqSet(nodes') :
                mstate[m] = "on" => Len(toNode'[m]) = Len(toNode[m]) + 1]_vars

\* ------------------------------------------------------------------ C32
\* C32: each miner has at most one mine_block thread running at any time; a
\* mine message received while an earlier nonce search of the miner is
\* still active starts no second search over the same pool and flags.
C32_OneMiningThread ==
    \A m \in Conns : Len(threads[m]) <= 1

\* ------------------------------------------------------------------ C33
\* Connection m was accepted after the verify request of the candidate under
\* vote was written, with the chain the coordinator holds now, and its
\* connection thread has not yet run its first statement.
JoinedDuringVote(m) ==
    /\ cpc = "send_verdict"
    /\ m \in SeqSet(nodes)
    /\ m \notin polled
    /\ Gone = {}
    /\ hpc[m] = "init"
    /\ mstate[m] = "on"
    /\ Len(blockchain.blocks) > 0

\* C33: a miner that connects while the coordinator's chain is non-empty
\* receives the chain message first: no veredict is written to its
\* connection before the chain message of its connection thread.
C33_ChainFirst ==
    [][\A m \in Conns :
          (JoinedDuringVote(m) /\ cpc' = "commit") => toNode'[m] = toNode[m]]_vars

\* ------------------------------------------------------------------ C34
\* C34: merkle_root returns a root for every non-empty ordered transaction
\* list of any length, lengths for which a level above the leaves holds an
\* odd number of hashes included: neither the call on L nor the call on
\* L + L ends with an exception.
C34_AlwaysReturns ==
    ret.op = "merkle_root" => (ret.once # IndexError /\ ret.twice # IndexError)

\* ------------------------------------------------------------------ C35
\* validate_block of the first block against GENESIS_HASH, as line 311 calls it
GenesisPasses(blocks) ==
    validate_block(EmptyChain, blocks[1], blocks[1].target, GENESIS_HASH) = "True"

\* C35: validate_chain returns true only if every block of the chain, block
\* 0 included, passes validate_block against its predecessor's hash
\* (GENESIS_HASH for block 0): a chain whose first block has a wrong parent
\* hash, misses its target or carries a wrong coinbase amount is reported
\* invalid.
C35_GenesisChecked ==
    (Validated /\ ret.res = "True" /\ blockchain.blocks # <<>>) =>
        GenesisPasses(blockchain.blocks)

\* ------------------------------------------------------------------ C36
\* C36: the verdict on a candidate is computed only from votes cast on that
\* candidate: when the coordinator leaves its wait on voting_over,
\* voting_finished holds for the current consensus, and the votes in it are
\* no more than the miners the verify request of the candidate was written
\* to.
C36_VotesOfCandidate ==
    [][(cpc = "wait_over" /\ cpc' = "read_votes") =>
          /\ voting_finished(consensus, nodes)
          /\ Len(consensus) <= Cardinality(polled)]_vars

\* ------------------------------------------------------------------ C37
\* the block hashes of a chain, in order
HashesOf(blocks) == [i \in 1..Len(blocks) |-> BlockHash(blocks[i])]

\* Miner m is connected, its connection thread has seeded it, and it has
\* read every message written to it.
Settled(m) ==
    /\ m \in SeqSet(nodes)
    /\ mstate[m] = "on"
    /\ hpc[m] = "run"
    /\ toNode[m] = <<>>

\* C37: at the end of a round in which a block was accepted, every connected
\* miner's chain equals the coordinator's chain, a miner that connected at
\* any moment of the round included: once the round is over and a miner has
\* read what was written to it, its chain holds the blocks of the
\* coordinator's chain.
C37_ChainsAgree ==
    (cpc = "ui" /\ verdicts # <<>> /\ verdicts[Len(verdicts)] = "accept") =>
        \A m \in Conns : Settled(m) => HashesOf(mchain[m]) = HashesOf(blockchain.blocks)

\* ------------------------------------------------------------------ C38
\* A mine_block thread of miner m ends while the miner's process goes on.
ThreadExits(m) ==
    /\ Len(threads'[m]) < Len(threads[m])
    /\ mstate'[m] = "on"

\* C38: when a miner's mining thread exits it has removed the coinbase it
\* added at the start of the search: the pool then holds no coinbase
\* transaction.
C38_CoinbaseRemoved ==
    [][\A m \in Conns :
          ThreadExits(m) => \A i \in 1..Len(pool'[m]) : ~IsDict(pool'[m][i])]_vars

\* ------------------------------------------------------------------ C39
\* The non-coinbase transactions of a block, and whether two different ones
\* of them have an input over the same outpoint.
Spends(b) ==
    {b.transactions[i].tx : i \in {i \in 1..Len(b.transactions) :
                                      ~b.transactions[i].tx.coinbase}}
OutpointsOf(t) ==
    IF "inputs" \in DOMAIN t
    THEN {<<t.inputs[i].tx_id, t.inputs[i].v_out>> : i \in 1..Len(t.inputs)}
    ELSE {}
SpendsTwice(b) ==
    \E t, u \in Spends(b) : t # u /\ OutpointsOf(t) \cap OutpointsOf(u) # {}

\* C39: validate_block does not return True for a block in which two
\* different non-coinbase transactions spend the same outpoint.
C39_DoubleSpendRejected ==
    (ret.op = "validate_block" /\ SpendsTwice(ret.block)) => ret.res # "True"

\* ------------------------------------------------------------------ C40
\* The blocks appended one by one with add_block to an empty chain, and the
\* same blocks in a fresh Blockchain on which validate_chain is called.
RECURSIVE AppendedOneByOne(_)
AppendedOneByOne(blocks) ==
    IF blocks = <<>> THEN EmptyChain
    ELSE add_block(AppendedOneByOne(SubSeq(blocks, 1, Len(blocks) - 1)),
                   blocks[Len(blocks)])
Rebuilt(blocks) == validate_chain([blocks |-> blocks, utxo_set |-> <<>>])

\* C40: for a chain on which validate_chain returns True, the UTXO set it
\* rebuilds equals the UTXO set of add_block over the same blocks: same
\* txids, same v_outs, same block_id.
C40_SameLedger ==
    Rebuilt(blockchain.blocks).res = "True" =>
        Rebuilt(blockchain.blocks).chain.utxo_set =
            AppendedOneByOne(blockchain.blocks).utxo_set

====
